---- MODULE Spec2Model ----
(***************************************************************************)
(* Model of the integration gateway (api crate):                           *)
(*   - connection variable mappings  (logic/connection_variable_mapping.rs)*)
(*   - connection model definitions  (logic/connection_model_definition.rs)*)
(*   - bearer token middleware       (middleware/jwt_auth.rs)              *)
(*   - passthrough response headers  (logic/passthrough.rs)                *)
(* Each subsystem has its own specification; the variables of the other    *)
(* subsystems stay at their initial value in it.                           *)
(* Strings are sequences of one-character strings, so that concatenation   *)
(* (format!) and to_lowercase are computed, not assumed.                   *)
(***************************************************************************)
EXTENDS Integers, Sequences, FiniteSets, TLC

VARIABLES
    cvmStore,   \* rows of the connection_variable_mapping collection
    cvmNextId,  \* the next id Id::now(IdPrefix::ConnectionVariableMapping) mints
    cvmReq,     \* the mapping request handled last
    cvmResp,    \* its response
    creators,   \* concurrent create_mapping tasks: position and locals of each
    cmdStore,   \* rows of the connection-model-definitions collection
    cmdNextId,  \* the next id Id::now(IdPrefix::ConnectionModelDefinition) mints
    cmdReq,     \* the definition request handled last
    cmdResp,    \* its response
    testTask,   \* the test_connection_model_definition request handled last
    jwtConfig,  \* buildable_secret and jwt_secret of the running server
    jwtReq,     \* the request the middleware handled last
    jwtResp,    \* its outcome
    jwtPrev,    \* the outcome of the request before it
    ptUpstream, \* header map of the upstream response of the last passthrough
    ptResp,     \* caller-facing response of the last passthrough
    ptTask,     \* the inbound passthrough task: position, inputs, steps taken
    evTask,     \* the task passthrough_request spawns for the audit event
    metricChan, \* usage metrics queued on the bounded metric channel
    eventChan,  \* audit events queued on the bounded event channel
    eventAccessPassword, \* config.event_access_password: its length class
    matTask,    \* the request materialised last: inputs and outbound request
    knResp,     \* the read_knowledge request handled last and its response
    defNames,   \* connection definitions: the name of each
    connCache,  \* the connection cache, least recently used entry first
    connResp,   \* the connection or definition request handled last
    auditTask,  \* the passthrough request whose forwarding and audit are traced
    batchTask,  \* an update_many item between its get_one and its update_one
    testConn    \* the connection lookup of the last definition test

vars == <<cvmStore, cvmNextId, cvmReq, cvmResp, creators,
          cmdStore, cmdNextId, cmdReq, cmdResp, testTask,
          jwtConfig, jwtReq, jwtResp, jwtPrev, ptUpstream, ptResp,
          ptTask, evTask, metricChan, eventChan, eventAccessPassword,
          matTask, knResp, defNames, connCache, connResp,
          auditTask, batchTask, testConn>>

cvmVars == <<cvmStore, cvmNextId, cvmReq, cvmResp, creators>>
cmdVars == <<cmdStore, cmdNextId, cmdReq, cmdResp, testTask>>
testVars == <<testTask>>
jwtVars == <<jwtConfig, jwtReq, jwtResp, jwtPrev>>
respVars == <<ptUpstream, ptResp>>
fanVars == <<ptTask, evTask, metricChan, eventChan, eventAccessPassword>>
ptVars  == <<ptUpstream, ptResp, ptTask, evTask, metricChan, eventChan,
             eventAccessPassword>>

matVars == <<matTask>>
knVars == <<knResp>>
cacheVars == <<defNames, connCache, connResp>>
lateVars == <<auditTask, batchTask, testConn>>
auxVars == <<matTask, knResp, defNames, connCache, connResp,
             auditTask, batchTask, testConn>>

None == "none"

(***************************************************************************)
(* Bounds                                                                  *)
(***************************************************************************)
MaxMappings == 2      \* mapping rows ever created in one behaviour
MaxDefinitions == 1   \* definition rows ever created in one behaviour
MaxBatch == 2         \* items of one update_many payload
MaxPresent == 1       \* fields present in one partial update
MaxRepeat == 2        \* values the upstream sends under one header name
MaxHeaders == 3       \* header lines of one upstream response
CacheCapacity == 2    \* entries the connection cache holds
NumCreators == 2      \* concurrent create_mapping tasks
MaxTests == 2         \* definition tests run beside one batch
MetricCapacity == 1   \* slots of the metric channel
EventCapacity == 1    \* slots of the event channel

(***************************************************************************)
(* Status and error class of a handler result                              *)
(***************************************************************************)
OK == "200 ok"
CREATED == "201 created"
BAD_REQUEST == "400 bad_request"
UNAUTHORIZED == "401 unauthorized"
FORBIDDEN == "403 forbidden"
NOT_FOUND == "404 not_found"
CONFLICT == "409 conflict"

\* the class of the upstream status: StatusCode::is_success or not
StatusClasses == {"success", "failure"}

\* TestConnection::default(), the status of a definition never tested
TestConnectionDefault == [state |-> "Untested"]

(***************************************************************************)
(* Connection variable mappings                                            *)
(***************************************************************************)
Tenants == {"t1", "t2"}
DefinitionIds == {"d1", "d2"}
Platforms == {"blaze"}
NoQuery == "no query"

ParameterLocation == {"PathParam", "QueryParam", "Header", "BodyField"}
InjectionStrategy == {"Strict", "Fallback", "Append"}
VariableDataType == {"String", "Number", "Boolean", "Json"}

VariableBinding ==
    [variable_name : {"hotel_id"}, target_param : {"id"},
     location : ParameterLocation, strategy : InjectionStrategy,
     data_type : VariableDataType]

\* the binding lists requests carry
BindingLists ==
    { <<>>,
      << [variable_name |-> "hotel_id", target_param |-> "id",
          location |-> "PathParam", strategy |-> "Strict",
          data_type |-> "String"] >> }

\* CreateRequest of connection_variable_mapping.rs; requests carry no _id
CvmCreateRequest ==
    [connection_model_definition_id : DefinitionIds,
     connection_platform : Platforms,
     bindings : BindingLists]

\* ConnectionVariableMapping; record_metadata reduced to deleted and updated
ConnectionVariableMapping ==
    [id : 1..(MaxMappings + NumCreators),
     connection_model_definition_id : DefinitionIds,
     connection_platform : Platforms,
     bindings : BindingLists,
     ownership : Tenants,
     deleted : BOOLEAN,
     updated : BOOLEAN]

\* MongoStore::get_many with filter {connectionModelDefinitionId, deleted:false}
CvmByDefinition(store, defId) ==
    { r \in store : r.connection_model_definition_id = defId /\ ~r.deleted }

\* get_one by _id alone
CvmByIdAnyState(store, id) ==
    { r \in store : r.id = id }

\* MongoStore::get_one with filter {_id, deleted:false}
CvmById(store, id) ==
    { r \in store : r.id = id /\ ~r.deleted }

\* the filter of create_mapping's existence check: no ownership clause
CvmExistingTenantScoped(store, payload, access) ==
    { r \in CvmByDefinition(store, payload.connection_model_definition_id) :
        r.ownership = access }

CvmExisting(store, payload, access) ==
    CvmByDefinition(store, payload.connection_model_definition_id)

\* RequestExt::access
CvmAccess(payload, access, id) ==
    [id |-> id,
     connection_model_definition_id |-> payload.connection_model_definition_id,
     connection_platform |-> payload.connection_platform,
     bindings |-> payload.bindings,
     ownership |-> access,
     deleted |-> FALSE,
     updated |-> FALSE]

\* RequestExt::update
CvmUpdate(payload, record) ==
    [record EXCEPT
        !.connection_model_definition_id = payload.connection_model_definition_id,
        !.connection_platform = payload.connection_platform,
        !.bindings = payload.bindings,
        !.updated = TRUE]

\* MongoStore::update_one(id, {$set: document})
CvmUpdateOne(store, id, row) ==
    { IF r.id = id THEN row ELSE r : r \in store }

CvmIdle == /\ cvmStore = {} /\ cvmNextId = 1
           /\ cvmReq = [op |-> None] /\ cvmResp = [status |-> None]
           /\ creators = [c \in 1..NumCreators |-> [pc |-> "idle"]]

\* POST /connection-variable-mappings, run without interleaving
create_mapping(access, payload) ==
    LET existing == CvmExisting(cvmStore, payload, access)
        record == CvmAccess(payload, access, cvmNextId)
    IN  /\ cvmReq' = [op |-> "create", access |-> access, payload |-> payload]
        /\ IF existing # {}
           THEN /\ cvmResp' = [status |-> CONFLICT]
                /\ UNCHANGED <<cvmStore, cvmNextId>>
           ELSE /\ cvmNextId <= MaxMappings
                /\ cvmStore' = cvmStore \cup {record}
                /\ cvmNextId' = cvmNextId + 1
                /\ cvmResp' = [status |-> CREATED, row |-> record]
        /\ UNCHANGED creators

\* the rows a handler selects from when its filter has an ownership clause
TenantLevel(store, caller) == { r \in store : r.ownership = caller }

\* lines 55, 90-93, 129-132: "Platform-level: no ownership filter"; the
\* caller's tenant is on the request (Extension<Arc<EventAccess>>) and is
\* not among the arguments of the three handlers
PlatformLevel(store, caller) == store

\* the filter shape_mongo_filter makes of the query of read_mappings
CvmQueries == {NoQuery} \cup DefinitionIds

\* GET /connection-variable-mappings
read_mappings(caller, query) ==
    LET rows == { r \in PlatformLevel(cvmStore, caller) :
                    /\ ~r.deleted
                    /\ query # NoQuery
                          => r.connection_model_definition_id = query }
    IN  /\ cvmReq' = [op |-> "read", caller |-> caller, query |-> query]
        /\ cvmResp' = [status |-> OK, rows |-> rows,
                       total |-> Cardinality(rows)]
        /\ UNCHANGED <<cvmStore, cvmNextId, creators>>

\* PATCH /connection-variable-mappings/:id
update_mapping(caller, id, payload) ==
    LET found == CvmById(PlatformLevel(cvmStore, caller), id)
    IN  /\ cvmReq' = [op |-> "update", caller |-> caller, id |-> id,
                      payload |-> payload]
        /\ IF found = {}
           THEN /\ cvmResp' = [status |-> NOT_FOUND]
                /\ UNCHANGED cvmStore
           ELSE LET record == CHOOSE r \in found : TRUE
                IN  /\ cvmStore' = CvmUpdateOne(cvmStore, id, CvmUpdate(payload, record))
                    /\ cvmResp' = [status |-> OK]
        /\ UNCHANGED <<cvmNextId, creators>>

\* DELETE /connection-variable-mappings/:id
delete_mapping(caller, id) ==
    LET found == CvmById(PlatformLevel(cvmStore, caller), id)
    IN  /\ cvmReq' = [op |-> "delete", caller |-> caller, id |-> id]
        /\ IF found = {}
           THEN /\ cvmResp' = [status |-> NOT_FOUND]
                /\ UNCHANGED cvmStore
           ELSE LET record == CHOOSE r \in found : TRUE
                IN  /\ cvmStore' = CvmUpdateOne(cvmStore, id, [record EXCEPT !.deleted = TRUE])
                    /\ cvmResp' = [status |-> OK, row |-> record]
        /\ UNCHANGED <<cvmNextId, creators>>

ReadMappings ==
    /\ \E caller \in Tenants, query \in CvmQueries :
          read_mappings(caller, query)
    /\ UNCHANGED <<cmdVars, jwtVars, ptVars, auxVars>>

CreateMapping ==
    /\ \E access \in Tenants, payload \in CvmCreateRequest :
          create_mapping(access, payload)
    /\ UNCHANGED <<cmdVars, jwtVars, ptVars, auxVars>>

UpdateMapping ==
    /\ \E caller \in Tenants, id \in 1..MaxMappings,
          payload \in CvmCreateRequest :
          update_mapping(caller, id, payload)
    /\ UNCHANGED <<cmdVars, jwtVars, ptVars, auxVars>>

DeleteMapping ==
    /\ \E caller \in Tenants, id \in 1..MaxMappings :
          delete_mapping(caller, id)
    /\ UNCHANGED <<cmdVars, jwtVars, ptVars, auxVars>>

(***************************************************************************)
(* Connection model definitions                                            *)
(***************************************************************************)
\* Option<T>
Some(v) == <<v>>
NoValue == <<>>
IsSome(o) == o # <<>>
Unwrap(o) == o[1]
Option(S) == {NoValue} \cup {Some(v) : v \in S}

\* char::to_lowercase on the characters the model's strings are made of
LowerChar(c) ==
    CASE c = "P" -> "p"
      [] c = "O" -> "o"
      [] c = "X" -> "x"
      [] c = "M" -> "m"
      [] OTHER -> c

\* str::to_lowercase
to_lowercase(str) == [i \in 1..Len(str) |-> LowerChar(str[i])]

CrudAction == {"GetMany"}

\* Display of CrudAction (camelCase names)
CrudActionDisplay(a) ==
    CASE a = "GetMany" -> <<"g", "e", "t", "M", "a", "n", "y">>

ConnectionPlatforms == {<<"p">>, <<"P">>}
PlatformVersions == {<<"1">>}
ModelNames == {<<"m">>, <<"O">>}
DefinitionNames == {<<"n">>}
ApiPaths == {<<"/", "X">>}
BaseUrls == {<<"u">>}

\* format!("api::{}::{}::{}::{}::{}::{}", ...).to_lowercase()
GenerateKey(platform, version, model_name, action_name, path, name) ==
    to_lowercase(
        <<"a", "p", "i">> \o <<":", ":">> \o platform \o <<":", ":">> \o version
            \o <<":", ":">> \o model_name \o <<":", ":">>
            \o CrudActionDisplay(action_name) \o <<":", ":">> \o path
            \o <<":", ":">> \o name)

\* CreateRequest of connection_model_definition.rs
CmdCreateRequest ==
    [connection_platform : ConnectionPlatforms,
     platform_version : PlatformVersions,
     name : DefinitionNames,
     model_name : ModelNames,
     base_url : BaseUrls,
     path : ApiPaths,
     action_name : CrudAction,
     active : Option(BOOLEAN)]

PresentFields(f) == {k \in DOMAIN f : IsSome(f[k])}

\* the key the six fields of a stored record give
KeyOfRecord(r) ==
    GenerateKey(r.connection_platform, r.platform_version, r.model_name,
                r.action_name,
                IF r.platform_info.variant = "Api" THEN r.platform_info.path
                                                   ELSE <<>>,
                r.name)

\* RequestExt::from
CmdFrom(req, id) ==
    [id |-> id,
     connection_platform |-> req.connection_platform,
     platform_version |-> req.platform_version,
     key |-> GenerateKey(req.connection_platform, req.platform_version,
                         req.model_name, req.action_name, req.path, req.name),
     name |-> req.name,
     model_name |-> req.model_name,
     platform_info |-> [variant |-> "Api", base_url |-> req.base_url,
                        path |-> req.path],
     action_name |-> req.action_name,
     test_connection_status |-> TestConnectionDefault,
     active |-> TRUE,
     deleted |-> FALSE]

\* RequestExt::update
CmdUpdate(req, record) ==
    [record EXCEPT
        !.key = GenerateKey(req.connection_platform, req.platform_version,
                            req.model_name, req.action_name, req.path, req.name),
        !.connection_platform = req.connection_platform,
        !.platform_version = req.platform_version,
        !.name = req.name,
        !.action_name = req.action_name,
        !.platform_info = [variant |-> "Api", base_url |-> req.base_url,
                           path |-> req.path],
        !.active = IF IsSome(req.active) THEN Unwrap(req.active) ELSE @]

\* update_many, lines 155-165 applied whatever the variant of platform_info
CmdMergeAnyVariant(item, record) ==
    LET f(k, old) == IF IsSome(item[k]) THEN Unwrap(item[k]) ELSE old
        api == record.platform_info
    IN  [record EXCEPT
            !.connection_platform = f("connection_platform", @),
            !.platform_version = f("platform_version", @),
            !.name = f("name", @),
            !.model_name = f("model_name", @),
            !.action_name = f("action_name", @),
            !.platform_info = [api EXCEPT !.base_url = f("base_url", @),
                                          !.path = f("path", @)],
            !.active = f("active", @)]

\* update_many, lines 145-176: the merge of one partial update
CmdMerge(item, record) ==
    LET f(k, old) == IF IsSome(item[k]) THEN Unwrap(item[k]) ELSE old
        api == record.platform_info
    IN  [record EXCEPT
            !.connection_platform = f("connection_platform", @),
            !.platform_version = f("platform_version", @),
            !.name = f("name", @),
            !.model_name = f("model_name", @),
            !.action_name = f("action_name", @),
            !.platform_info =
                IF api.variant = "Api"
                THEN [api EXCEPT !.base_url = f("base_url", @),
                                 !.path = f("path", @)]
                ELSE api,
            !.active = f("active", @)]

\* update_many, lines 183-198: the key is regenerated from the merged record
CmdRegenerateKey(record) == [record EXCEPT !.key = KeyOfRecord(record)]

\* the key taken before the merge instead of after it
CmdMergeAndKeyStale(item, record) ==
    CmdMerge(item, CmdRegenerateKey(record))

\* update_many, lines 143-198: merge, then regenerate the key
CmdMergeAndKey(item, record) ==
    CmdRegenerateKey(CmdMerge(item, record))

\* MongoStore::get_one with filter {_id, deleted:false}
CmdById(store, id) == { r \in store : r.id = id /\ ~r.deleted }

\* MongoStore::update_one(id, {$set: document})
CmdUpdateOne(store, id, row) ==
    { IF r.id = id THEN row ELSE r : r \in store }

\* the optional fields of PartialUpdateRequest the model keeps, in the order
\* of the struct, and the values each can carry
PartialFields ==
    <<"connection_platform", "platform_version", "name", "model_name",
      "base_url", "path", "action_name", "active">>

PartialFieldValues(f) ==
    CASE f = "connection_platform" -> ConnectionPlatforms
      [] f = "platform_version" -> PlatformVersions
      [] f = "name" -> DefinitionNames
      [] f = "model_name" -> ModelNames
      [] f = "base_url" -> BaseUrls
      [] f = "path" -> ApiPaths
      [] f = "action_name" -> CrudAction
      [] f = "active" -> BOOLEAN

\* a PartialUpdateRequest with no field but its id
PartialOfId(id) ==
    [id |-> id, connection_platform |-> NoValue, platform_version |-> NoValue,
     name |-> NoValue, model_name |-> NoValue, base_url |-> NoValue,
     path |-> NoValue, action_name |-> NoValue, active |-> NoValue]

\* r, and r with up to k of the fields from position from on made present
RECURSIVE PartialWith(_, _, _)
PartialWith(r, from, k) ==
    {r} \cup
    (IF k = 0 THEN {}
     ELSE UNION { UNION { PartialWith(
                              [r EXCEPT ![PartialFields[i]] = Some(v)],
                              i + 1, k - 1)
                          : v \in PartialFieldValues(PartialFields[i]) }
                  : i \in from..Len(PartialFields) })

\* PartialUpdateRequest: at most MaxPresent fields present; an item without
\* id, or with the id no row has, carries no field
PartialUpdateRequest ==
    UNION { IF id \in {NoValue, Some(MaxDefinitions + 1)}
            THEN {PartialOfId(id)}
            ELSE PartialWith(PartialOfId(id), 1, MaxPresent)
            : id \in Option(1..(MaxDefinitions + 1)) }

\* BatchUpdateResult
BatchResult(id, success, error) ==
    [id |-> id, success |-> success, error |-> error]

\* what can fail while one item is processed: the read of the record, its
\* serialisation, the write
Faults == {"none", "get_one error", "serialize error", "update_one error"}

\* lines 236-242 reporting the item a success
NotFoundResultSuccess(id) == BatchResult(Some(id), TRUE, "")

\* lines 236-242
NotFoundResult(id) == BatchResult(Some(id), FALSE, "Record not found")

\* lines 118-128
MissingIdResult == BatchResult(NoValue, FALSE, "Missing ID")

\* update_many, lines 117-252: one iteration of the loop over the payload;
\* wrote tells whether update_one went through
UpdateManyItem(store, request, fault) ==
    IF ~IsSome(request.id)
    THEN [store |-> store, result |-> MissingIdResult, wrote |-> FALSE]
    ELSE
      LET id == Unwrap(request.id)
          found == CmdById(store, id)
      IN  IF fault = "get_one error"
          THEN [store |-> store, wrote |-> FALSE,
                result |-> BatchResult(Some(id), FALSE, fault)]
          ELSE IF found = {}
          THEN [store |-> store, result |-> NotFoundResult(id),
                wrote |-> FALSE]
          ELSE IF fault # "none"
          THEN [store |-> store, wrote |-> FALSE,
                result |-> BatchResult(Some(id), FALSE, fault)]
          ELSE
            LET record == CHOOSE r \in found : TRUE
                merged == CmdMergeAndKey(request, record)
            IN  [store |-> CmdUpdateOne(store, id, merged),
                 result |-> BatchResult(Some(id), TRUE, ""),
                 wrote |-> TRUE]

\* the faults an item can meet: none without an id, only the read without a
\* record
FaultsOf(store, request) ==
    IF ~IsSome(request.id) THEN {"none"}
    ELSE IF CmdById(store, Unwrap(request.id)) = {}
    THEN {"none", "get_one error"}
    ELSE Faults

\* a definition request: its handler, the size of its payload, the record
\* every item of the payload equals when the payload repeats one record, the
\* ids of the items processed and the writes that went through
CmdRequest(op) ==
    [op |-> op, running |-> FALSE, size |-> 0, fixed |-> NoValue,
     items |-> <<>>, writes |-> 0]

\* a platform_info of another variant than Api: it has no transport fields
OtherPlatformInfo == [variant |-> "Other", base_url |-> <<>>, path |-> <<>>]

\* the definitions a batch can meet in the store: those RequestExt::from
\* makes, with platform_info of either variant
SeedDefinitions ==
    LET made == {CmdFrom(req, 1) : req \in CmdCreateRequest}
    IN  made \cup {CmdRegenerateKey([r EXCEPT !.platform_info = OtherPlatformInfo])
                     : r \in made}

\* no batch is between its first item and its response
CmdQuiet == ~cmdReq.running

\* POST /connection-model-definitions: create::<CreateRequest, _>
cmd_create(req) ==
    /\ CmdQuiet
    /\ cmdNextId <= MaxDefinitions
    /\ cmdStore' = cmdStore \cup {CmdFrom(req, cmdNextId)}
    /\ cmdNextId' = cmdNextId + 1
    /\ cmdReq' = CmdRequest("create")
    /\ cmdResp' = [status |-> OK, results |-> <<>>]

\* PATCH /connection-model-definitions/:id: update::<CreateRequest, _>
cmd_update(id, req) ==
    LET found == CmdById(cmdStore, id)
    IN  /\ CmdQuiet
        /\ cmdReq' = CmdRequest("update")
        /\ IF found = {}
           THEN /\ cmdResp' = [status |-> NOT_FOUND, results |-> <<>>]
                /\ UNCHANGED cmdStore
           ELSE LET record == CHOOSE r \in found : TRUE
                IN  /\ cmdStore' = CmdUpdateOne(cmdStore, id, CmdUpdate(req, record))
                    /\ cmdResp' = [status |-> OK, results |-> <<>>]
        /\ UNCHANGED cmdNextId

\* DELETE /connection-model-definitions/:id: delete::<CreateRequest, _>
cmd_delete(id) ==
    LET found == CmdById(cmdStore, id)
    IN  /\ CmdQuiet
        /\ cmdReq' = CmdRequest("delete")
        /\ IF found = {}
           THEN /\ cmdResp' = [status |-> NOT_FOUND, results |-> <<>>]
                /\ UNCHANGED cmdStore
           ELSE LET record == CHOOSE r \in found : TRUE
                IN  /\ cmdStore' = CmdUpdateOne(cmdStore, id,
                                       [record EXCEPT !.deleted = TRUE])
                    /\ cmdResp' = [status |-> OK, results |-> <<>>]
        /\ UNCHANGED cmdNextId

\* PATCH /connection-model-definitions, line 115: the batch engine starts
\* with an empty result vector
update_many_begin(size, fixed) ==
    /\ CmdQuiet
    /\ cmdReq' = [CmdRequest("update_many") EXCEPT
                     !.running = TRUE, !.size = size, !.fixed = fixed]
    /\ cmdResp' = [status |-> None, results |-> <<>>]
    /\ UNCHANGED <<cmdStore, cmdNextId>>

\* lines 117-252: the next item of the payload is processed
update_many_item(request, fault) ==
    LET out == UpdateManyItem(cmdStore, request, fault)
    IN  /\ cmdReq.running
        /\ Len(cmdReq.items) < cmdReq.size
        /\ IsSome(cmdReq.fixed) => request = Unwrap(cmdReq.fixed)
        /\ fault \in FaultsOf(cmdStore, request)
        /\ cmdStore' = out.store
        /\ cmdReq' = [cmdReq EXCEPT
              !.items = Append(@, request.id),
              !.writes = IF out.wrote THEN @ + 1 ELSE @]
        /\ cmdResp' = [cmdResp EXCEPT !.results = Append(@, out.result)]
        /\ UNCHANGED cmdNextId

\* the loop of line 117 left at the first failed item
UpdateManyDoneOrFailed(req, resp) ==
    \/ Len(req.items) = req.size
    \/ \E i \in 1..Len(resp.results) : ~resp.results[i].success

\* line 117: the loop ends when the payload is exhausted
UpdateManyDone(req, resp) == Len(req.items) = req.size

\* line 254: the result vector is returned
update_many_end ==
    /\ cmdReq.running
    /\ UpdateManyDone(cmdReq, cmdResp)
    /\ cmdReq' = [cmdReq EXCEPT !.running = FALSE]
    /\ cmdResp' = [cmdResp EXCEPT !.status = OK]
    /\ UNCHANGED <<cmdStore, cmdNextId>>

CmdCreate ==
    /\ \E req \in CmdCreateRequest : cmd_create(req)
    /\ UNCHANGED <<cvmVars, jwtVars, ptVars, testVars, auxVars>>

CmdUpdateOneRecord ==
    /\ \E id \in 1..(MaxDefinitions + 1), req \in CmdCreateRequest :
          cmd_update(id, req)
    /\ UNCHANGED <<cvmVars, jwtVars, ptVars, testVars, auxVars>>

CmdDelete ==
    /\ \E id \in 1..(MaxDefinitions + 1) : cmd_delete(id)
    /\ UNCHANGED <<cvmVars, jwtVars, ptVars, testVars, auxVars>>

UpdateManyBegin ==
    /\ \E size \in 0..MaxBatch : update_many_begin(size, NoValue)
    /\ UNCHANGED <<cvmVars, jwtVars, ptVars, testVars, auxVars>>

\* a payload that repeats one record
UpdateManyBeginRepeated ==
    /\ \E size \in 1..MaxBatch, request \in PartialUpdateRequest :
          update_many_begin(size, Some(request))
    /\ UNCHANGED <<cvmVars, jwtVars, ptVars, testVars, auxVars>>

UpdateManyNextItem ==
    /\ \E request \in PartialUpdateRequest, fault \in Faults :
          update_many_item(request, fault)
    /\ UNCHANGED <<cvmVars, jwtVars, ptVars, testVars, auxVars>>

UpdateManyEnd ==
    /\ update_many_end
    /\ UNCHANGED <<cvmVars, jwtVars, ptVars, testVars, auxVars>>

(***************************************************************************)
(* test_connection_model_definition                                        *)
(***************************************************************************)
\* where a test run stops for a reason that is not in the stored definition:
\* the connection is not there, or one of the calls of the handler fails
TestStops ==
    {"none", "connection none", "connection error", "definition error",
     "secret error", "request_json error", "execute error", "text error",
     "status_bson error", "update_one error"}

TestIdle ==
    [id |-> 0, stop |-> "none", status |-> None, steps |-> <<>>,
     upstream |-> 0, body |-> "", request_string |-> "",
     response |-> <<>>]

\* the statuses, body texts and request payloads of the upstream call
UpstreamStatuses == {200, 299, 300, 500}

UpstreamBodies == {"pong", "denied"}

RequestStrings == {"{}", "{\"pathParams\":{\"id\":\"X\"}}"}

\* a status at or above 200 and at or below 300
IsSuccessThrough300(status_code) == status_code >= 200 /\ status_code <= 300

\* line 414: StatusCode::is_success, a status in 200..=299
is_success(status_code) == status_code >= 200 /\ status_code < 300

\* lines 413-428: the TestConnection state made of the upstream answer
TestConnectionOf(status_code, response_body, request_string) ==
    IF is_success(status_code)
    THEN [state |-> "Success", response |-> response_body,
          request_payload |-> request_string]
    ELSE [state |-> "Failure", message |-> response_body,
          request_payload |-> request_string]

\* the response carrying the body text of a 2xx upstream answer only
TestConnectionResponseBodyOnSuccess(status_code, status, response_body) ==
    [code |-> status_code, status |-> status,
     response |-> IF is_success(status_code) THEN response_body ELSE ""]

\* lines 457-470: TestConnectionResponse {code, status, response, meta}
TestConnectionResponse(status_code, status, response_body) ==
    [code |-> status_code, status |-> status, response |-> response_body]

\* lines 330-337 without the active clause
TestableIgnoringActive(store, id) ==
    { r \in store : r.id = id /\ ~r.deleted }

\* lines 330-337: get_one {_id, active: false, deleted: false}
Testable(store, id) ==
    { r \in store : r.id = id /\ ~r.active /\ ~r.deleted }

\* the write that also makes the definition active
SetTestConnectionStatusAndActivate(r, status) ==
    [r EXCEPT !.test_connection_status = status, !.active = TRUE]

\* lines 436-446: update_one(id, {$set: {testConnectionStatus: status}})
SetTestConnectionStatus(r, status) ==
    [r EXCEPT !.test_connection_status = status]

\* lines 300-476: the steps taken, the status and response returned and the
\* store left by one test of definition id; the upstream answer is kept with
\* the task of a test that was answered
TestRun(store, id, stop, status_code, response_body, request_string) ==
    LET end(status, steps) ==
            [store |-> store, status |-> status, steps |-> steps,
             response |-> <<>>]
        found == Testable(store, id)
        status == TestConnectionOf(status_code, response_body, request_string)
    IN  IF stop = "connection none"
        THEN end(NOT_FOUND, <<"connection">>)
        ELSE IF stop = "connection error"
        THEN end("store error", <<"connection">>)
        ELSE IF stop = "definition error"
        THEN end("store error", <<"connection", "definition">>)
        ELSE IF found = {}
        THEN end(NOT_FOUND, <<"connection", "definition">>)
        ELSE IF stop = "secret error"
        THEN end(stop, <<"connection", "definition", "secret">>)
        ELSE IF stop = "request_json error"
        THEN end("500 script_error", <<"connection", "definition", "secret">>)
        ELSE IF stop = "execute error"
        THEN end(stop, <<"connection", "definition", "secret", "execute">>)
        ELSE IF stop = "text error"
        THEN end("500 unknown",
                 <<"connection", "definition", "secret", "execute">>)
        ELSE IF stop = "status_bson error"
        THEN end("500 serialize_error",
                 <<"connection", "definition", "secret", "execute">>)
        ELSE IF stop = "update_one error"
        THEN end("store error",
                 <<"connection", "definition", "secret", "execute", "write">>)
        ELSE [store |-> { IF r \in found
                          THEN SetTestConnectionStatus(r, status)
                          ELSE r : r \in store },
              status |-> OK,
              steps |-> <<"connection", "definition", "secret", "execute",
                          "write", "respond">>,
              response |-> <<TestConnectionResponse(status_code, status,
                                                    response_body)>>]

test_connection_model_definition(id, stop, status_code, response_body, request_string) ==
    LET out == TestRun(cmdStore, id, stop, status_code, response_body,
                       request_string)
    IN  /\ CmdQuiet
        /\ cmdStore' = out.store
        /\ testTask' = IF out.status = OK
                       THEN [id |-> id, stop |-> stop, status |-> out.status,
                             steps |-> out.steps, upstream |-> status_code,
                             body |-> response_body,
                             request_string |-> request_string,
                             response |-> out.response]
                       ELSE [TestIdle EXCEPT !.id = id, !.stop = stop,
                                             !.status = out.status,
                                             !.steps = out.steps]
        /\ UNCHANGED <<cmdNextId, cmdReq, cmdResp>>

TestConnectionModelDefinition ==
    /\ \E id \in 1..(MaxDefinitions + 1), stop \in TestStops,
          status_code \in UpstreamStatuses, response_body \in UpstreamBodies,
          request_string \in RequestStrings :
          test_connection_model_definition(id, stop, status_code,
                                           response_body, request_string)
    /\ UNCHANGED <<cvmVars, jwtVars, ptVars, auxVars>>

(***************************************************************************)
(* Bearer token middleware                                                 *)
(***************************************************************************)
\* ConnectionsConfig: main.rs sets buildable_secret to "" when the
\* environment has no BUILDABLE_SECRET
JwtConfigs ==
    [buildable_secret : {<<>>, <<"b">>}, jwt_secret : {<<"j">>}]

BuildableIds == {<<>>, <<"t">>}

\* the secrets a token may have been signed with
SigningKeys == {<<"j">>, <<"b", "j">>, <<"j", "t">>, <<"x">>}

\* a bearer token: what the two decodes of the middleware read of it
Tokens ==
    { t \in [wellFormed : BOOLEAN,        \* three base64 parts holding JSON
             is_buildable_core : BOOLEAN, \* absent reads as false
             buildable_id : Option(BuildableIds),
             expOk : BOOLEAN,             \* exp present and not passed
             audIssOk : BOOLEAN,          \* aud and iss among the accepted
             fullClaims : BOOLEAN,        \* the payload deserialises as Claims
             signedWith : SigningKeys] :
        ~t.wellFormed =>
            /\ ~t.is_buildable_core /\ t.buildable_id = NoValue
            /\ ~t.expOk /\ ~t.audIssOk /\ ~t.fullClaims
            /\ t.signedWith = <<"x">> }

NoToken == CHOOSE t \in Tokens : ~t.wellFormed

\* the Authorization header of a request
JwtRequests ==
    { r \in [header : {"missing", "not_str", "not_bearer", "bearer"},
             token : Tokens] :
        r.header # "bearer" => r.token = NoToken }

MsgNotAuthorized == "You are not authorized to access this resource"
MsgInvalidFormat == "Invalid token format"
MsgMissingBuildableId == "Invalid token: missing buildableId"

JwtError(status, message, stage) ==
    [status |-> status, message |-> message, stage |-> stage,
     nextRan |-> FALSE, claims |-> NoValue]

\* a keyed validation that skips the signature
FullValidationUnsigned == [validate_signature |-> FALSE, validate_exp |-> TRUE]

\* Validation::default() with audience and issuer set; the peek validation
\* differs by insecure_disable_signature_validation() only
FullValidation == [validate_signature |-> TRUE, validate_exp |-> TRUE]
PeekValidation == [validate_signature |-> FALSE, validate_exp |-> TRUE]

\* jsonwebtoken::decode::<T>(token, key, validation)
Decode(token, key, validation, needsFullClaims) ==
    /\ token.wellFormed
    /\ validation.validate_signature => token.signedWith = key
    /\ needsFullClaims => token.fullClaims
    /\ validation.validate_exp => token.expOk
    /\ token.audIssOk

\* JwtState::from_state: the key of core tokens
CoreSecret(config) == config.buildable_secret \o config.jwt_secret

\* the user key without the tenant salt
UserSecretNoSalt(config, buildable_id) == config.jwt_secret

\* get_decoding_key, line 81: the key of user tokens
UserSecret(config, buildable_id) == config.jwt_secret \o buildable_id

\* a peek failure answered like a verification failure
PeekFailedForbidden == JwtError(FORBIDDEN, MsgNotAuthorized, "peek")

\* get_decoding_key, lines 63-66: the peek failed
PeekFailed == JwtError(UNAUTHORIZED, MsgInvalidFormat, "peek")

\* key selection that looks at buildableId before isBuildableCore
GetDecodingKeyUserFirst(config, token) ==
    IF ~Decode(token, <<"d", "u", "m", "m", "y">>, PeekValidation, FALSE)
    THEN [ok |-> FALSE, err |-> PeekFailed]
    ELSE IF IsSome(token.buildable_id)
    THEN [ok |-> TRUE, key |-> config.jwt_secret \o Unwrap(token.buildable_id)]
    ELSE IF token.is_buildable_core
    THEN [ok |-> TRUE, key |-> config.buildable_secret \o config.jwt_secret]
    ELSE [ok |-> FALSE,
          err |-> JwtError(UNAUTHORIZED, MsgMissingBuildableId, "peek")]

\* key selection that falls back to JWT_SECRET when buildableId is absent
GetDecodingKeyFallback(config, token) ==
    IF ~Decode(token, <<"d", "u", "m", "m", "y">>, PeekValidation, FALSE)
    THEN [ok |-> FALSE, err |-> PeekFailed]
    ELSE IF token.is_buildable_core
    THEN [ok |-> TRUE, key |-> config.buildable_secret \o config.jwt_secret]
    ELSE IF ~IsSome(token.buildable_id)
    THEN [ok |-> TRUE, key |-> config.jwt_secret]
    ELSE [ok |-> TRUE, key |-> config.jwt_secret \o Unwrap(token.buildable_id)]

\* JwtState::get_decoding_key
GetDecodingKey(config, token) ==
    IF ~Decode(token, <<"d", "u", "m", "m", "y">>, PeekValidation, FALSE)
    THEN [ok |-> FALSE, err |-> PeekFailed]
    ELSE IF token.is_buildable_core
    THEN [ok |-> TRUE, key |-> CoreSecret(config)]
    ELSE IF ~IsSome(token.buildable_id)
    THEN [ok |-> FALSE,
          err |-> JwtError(UNAUTHORIZED, MsgMissingBuildableId, "peek")]
    ELSE [ok |-> TRUE, key |-> UserSecret(config, Unwrap(token.buildable_id))]

\* a verification failure answered unauthorized
ValidationFailedUnauthorized == JwtError(UNAUTHORIZED, MsgNotAuthorized, "verify")

\* jwt_auth_middleware, lines 128-134: the keyed decode failed
ValidationFailed == JwtError(FORBIDDEN, MsgNotAuthorized, "verify")

\* jwt_auth_middleware
JwtAuthMiddleware(config, req) ==
    IF req.header # "bearer"
    THEN JwtError(UNAUTHORIZED, MsgNotAuthorized, "header")
    ELSE
      LET k == GetDecodingKey(config, req.token)
      IN  IF ~k.ok THEN k.err
          ELSE IF Decode(req.token, k.key, FullValidation, TRUE)
          THEN [status |-> OK, message |-> "", stage |-> "next",
                nextRan |-> TRUE,
                claims |-> Some([is_buildable_core |-> req.token.is_buildable_core,
                                 buildable_id |-> req.token.buildable_id])]
          ELSE ValidationFailed

jwt_auth_middleware(req) ==
    /\ jwtReq' = req
    /\ jwtResp' = JwtAuthMiddleware(jwtConfig, req)
    /\ jwtPrev' = jwtResp
    /\ UNCHANGED jwtConfig

JwtRequest ==
    /\ \E req \in JwtRequests : jwt_auth_middleware(req)
    /\ UNCHANGED <<cvmVars, cmdVars, ptVars, auxVars>>

(***************************************************************************)
(* Passthrough: the caller-facing response                                 *)
(***************************************************************************)
CONTENT_LENGTH == "content-length"
PICA_PASSTHROUGH_HEADER == "pica-passthrough"

\* header names the upstream sends; with the prefix added, the last one is
\* longer than a header name may be
UpstreamNames == {CONTENT_LENGTH, "set-cookie", "x-long"}
TooLongWithPrefix == {"x-long"}
HeaderValues == {"a", "b"}

\* format!("{PICA_PASSTHROUGH_HEADER}-{key}")
Prefixed(key) == PICA_PASSTHROUGH_HEADER \o "-" \o key

\* HeaderName::try_from
IsHeaderName(key, name) == key \notin TooLongWithPrefix

CallerNames == {CONTENT_LENGTH} \cup {Prefixed(n) : n \in UpstreamNames}

ValueLists == UNION { [1..n -> HeaderValues] : n \in 0..MaxRepeat }

\* a HeaderMap: the values held under each name, in order; none when absent
HeaderCount(map) ==
    Len(map[CONTENT_LENGTH]) + Len(map["set-cookie"]) + Len(map["x-long"])

UpstreamHeaderMaps ==
    { m \in [UpstreamNames -> ValueLists] : HeaderCount(m) <= MaxHeaders }

\* HeaderMap::new()
EmptyHeaderMap == [n \in CallerNames |-> <<>>]

\* HeaderMap::insert replaces the values held under the name
HeaderInsert(map, name, value) == [map EXCEPT ![name] = <<value>>]

\* HeaderMap::iter: every (name, value) pair, the values of a name in order
RECURSIVE HeaderIter(_, _)
HeaderIter(map, names) ==
    IF names = {} THEN <<>>
    ELSE LET n == CHOOSE x \in names : TRUE
         IN  [i \in 1..Len(map[n]) |-> <<n, map[n][i]>>]
                 \o HeaderIter(map, names \ {n})

\* passthrough_request, lines 170-186: the loop over the upstream headers
RECURSIVE RewriteHeaders(_, _, _)
RewriteHeaders(pairs, i, headers) ==
    IF i > Len(pairs) THEN headers
    ELSE LET key == pairs[i][1]
             value == pairs[i][2]
         IN  IF key = CONTENT_LENGTH
             THEN RewriteHeaders(pairs, i + 1,
                      HeaderInsert(headers, CONTENT_LENGTH, value))
             ELSE IF IsHeaderName(key, Prefixed(key))
             THEN RewriteHeaders(pairs, i + 1,
                      HeaderInsert(headers, Prefixed(key), value))
             ELSE RewriteHeaders(pairs, i + 1, headers)

\* what one passthrough request meets: its routing headers, the connection
\* lookup, the dispatch and the read of the upstream body
PassthroughInputs ==
    [connection_header : BOOLEAN, auth_header : BOOLEAN,
     connection : {"found", "not_found"},
     dispatch : {"response", "error"},
     status : {200, 500},
     headers : UpstreamHeaderMaps,
     bytes : {"read", "error"}]

NoUpstream == [status |-> 0, headers |-> [n \in UpstreamNames |-> <<>>]]

PtError(class) ==
    [outcome |-> class, status |-> 0, headers |-> EmptyHeaderMap]

\* passthrough_request: routing headers, connection, dispatch, response
passthrough_request(in) ==
    IF ~in.connection_header \/ ~in.auth_header
    THEN /\ ptResp' = PtError(BAD_REQUEST)
         /\ ptUpstream' = NoUpstream
    ELSE IF in.connection = "not_found"
    THEN /\ ptResp' = PtError(NOT_FOUND)
         /\ ptUpstream' = NoUpstream
    ELSE IF in.dispatch = "error"
    THEN /\ ptResp' = PtError("dispatch error")
         /\ ptUpstream' = NoUpstream
    ELSE /\ ptUpstream' = [status |-> in.status, headers |-> in.headers]
         /\ ptResp' =
              IF in.bytes = "error"
              THEN PtError("500 script_error")
              ELSE [outcome |-> OK, status |-> in.status,
                    headers |-> RewriteHeaders(
                        HeaderIter(in.headers, UpstreamNames), 1,
                        EmptyHeaderMap)]

\* a request stopped before the dispatch
PassthroughRejected ==
    /\ \E in \in PassthroughInputs :
          /\ ~in.connection_header \/ ~in.auth_header
               \/ in.connection = "not_found" \/ in.dispatch = "error"
          /\ in.status = 200 /\ in.headers = NoUpstream.headers
          /\ in.bytes = "read"
          /\ passthrough_request(in)
    /\ UNCHANGED <<cvmVars, cmdVars, jwtVars, fanVars, auxVars>>

\* a request the upstream answered
PassthroughAnswered ==
    /\ \E in \in PassthroughInputs :
          /\ in.connection_header /\ in.auth_header
          /\ in.connection = "found" /\ in.dispatch = "response"
          /\ passthrough_request(in)
    /\ UNCHANGED <<cvmVars, cmdVars, jwtVars, fanVars, auxVars>>

(***************************************************************************)
(* Passthrough as tasks: the inbound task suspends at the await of         *)
(* get_connection, of dispatch_destination_request, of metric_tx.send and  *)
(* of bytes(); the task it spawns suspends at the await of find_one and of *)
(* event_tx.send.  Both channels are bounded: a send on a full channel     *)
(* waits for the receiver.  A caller disconnect drops the inbound task at  *)
(* a suspension point; the spawned task is detached.                       *)
(***************************************************************************)
\* what the auth header of a request holds
AuthHeaders == {"absent", "access key", "foreign key", "not a key"}

PASSWORD_OK == "PASSWORD_LENGTH bytes"
EventAccessPasswords == {PASSWORD_OK, "another length"}

PtTaskIdle ==
    [pc |-> "idle", connection_header |-> FALSE, auth_header |-> "absent",
     status |-> None, out |-> None, log |-> <<>>]

EvTaskIdle == [pc |-> "unspawned", definition |-> None, find_one |-> None]

FanIdle == /\ ptTask = PtTaskIdle /\ evTask = EvTaskIdle
           /\ metricChan = 0 /\ eventChan = 0
           /\ eventAccessPassword = PASSWORD_OK

Logged(step) == \E i \in 1..Len(ptTask.log) : ptTask.log[i] = step

LogCount(step) ==
    Cardinality({i \in 1..Len(ptTask.log) : ptTask.log[i] = step})

LogIndex(step) == CHOOSE i \in 1..Len(ptTask.log) : ptTask.log[i] = step

\* lines 70-85: both routing headers are there
HeadersPresentConnectionOnly(connection_header, auth_header) ==
    connection_header

HeadersPresent(connection_header, auth_header) ==
    connection_header /\ auth_header # "absent"

\* the suspension points of the inbound task
SuspensionPoints == {"get_connection", "dispatch", "metric_send", "bytes"}

\* lines 40-95: a request arrives; the header checks run up to the first await
pt_start(connection_header, auth_header) ==
    /\ ptTask.pc \in {"idle", "returned", "cancelled"}
    /\ evTask.pc \in {"unspawned", "done"}
    /\ evTask' = EvTaskIdle
    /\ ptTask' =
         IF HeadersPresent(connection_header, auth_header)
         THEN [PtTaskIdle EXCEPT !.pc = "get_connection",
                                 !.connection_header = connection_header,
                                 !.auth_header = auth_header]
         ELSE [PtTaskIdle EXCEPT !.pc = "returned", !.out = BAD_REQUEST,
                                 !.connection_header = connection_header,
                                 !.auth_header = auth_header]
    /\ UNCHANGED <<metricChan, eventChan, eventAccessPassword>>

\* lines 95-105: get_connection returns
pt_get_connection(found) ==
    /\ ptTask.pc = "get_connection"
    /\ ptTask' =
         IF found
         THEN [ptTask EXCEPT !.pc = "dispatch",
                             !.log = Append(@, "get_connection")]
         ELSE [ptTask EXCEPT !.pc = "returned", !.out = NOT_FOUND,
                             !.log = Append(@, "get_connection")]
    /\ UNCHANGED <<evTask, metricChan, eventChan, eventAccessPassword>>

\* lines 149-167: the dispatch fails and its error is returned
pt_dispatch_error ==
    /\ ptTask.pc = "dispatch"
    /\ ptTask' = [ptTask EXCEPT !.pc = "returned", !.out = "dispatch error",
                                !.log = Append(@, "dispatch")]
    /\ UNCHANGED <<evTask, metricChan, eventChan, eventAccessPassword>>

\* lines 149-310: the dispatch returns a response; the headers are rewritten,
\* the event task is spawned and the metric send is reached, which completes
\* at once when the metric channel has a free slot
pt_dispatch_response(status) ==
    /\ ptTask.pc = "dispatch"
    /\ evTask' = [EvTaskIdle EXCEPT !.pc = "find_one"]
    /\ IF metricChan < MetricCapacity
       THEN /\ metricChan' = metricChan + 1
            /\ ptTask' = [ptTask EXCEPT
                   !.pc = "bytes", !.status = status,
                   !.log = @ \o <<"dispatch", "spawn", "metric">>]
       ELSE /\ metricChan' = metricChan
            /\ ptTask' = [ptTask EXCEPT
                   !.pc = "metric_send", !.status = status,
                   !.log = @ \o <<"dispatch", "spawn", "metric_wait">>]
    /\ UNCHANGED <<eventChan, eventAccessPassword>>

\* lines 307-310: the waiting metric send gets its slot
pt_metric_send ==
    /\ ptTask.pc = "metric_send"
    /\ metricChan < MetricCapacity
    /\ metricChan' = metricChan + 1
    /\ ptTask' = [ptTask EXCEPT !.pc = "bytes", !.log = Append(@, "metric")]
    /\ UNCHANGED <<evTask, eventChan, eventAccessPassword>>

\* lines 313-324: the upstream body is read and the response returned
pt_bytes(read) ==
    /\ ptTask.pc = "bytes"
    /\ ptTask' =
         IF read
         THEN [ptTask EXCEPT !.pc = "returned", !.out = OK,
                             !.log = @ \o <<"bytes", "respond">>]
         ELSE [ptTask EXCEPT !.pc = "returned", !.out = "500 script_error",
                             !.log = Append(@, "bytes")]
    /\ UNCHANGED <<evTask, metricChan, eventChan, eventAccessPassword>>

\* the caller disconnects: the inbound task is dropped where it waits
pt_cancel ==
    /\ ptTask.pc \in SuspensionPoints
    /\ ptTask' = [ptTask EXCEPT !.pc = "cancelled"]
    /\ UNCHANGED <<evTask, metricChan, eventChan, eventAccessPassword>>

\* lines 230-236: find_one(..).await.ok().flatten()
SparseCmdFound(definition, find_one) ==
    definition = "match" /\ find_one = "ok"

\* lines 239, 259-264: EncryptedAccessKey::parse, the password as an array
\* of PASSWORD_LENGTH bytes, AccessKey::parse
AccessKeyParsed(auth_header, password) ==
    /\ auth_header \in {"access key", "foreign key"}
    /\ password = PASSWORD_OK
    /\ auth_header = "access key"

\* lines 238-297: whether the task reaches event_tx.send
EventBuiltOnSuccessOnly(definition, find_one, auth_header, password, status) ==
    /\ SparseCmdFound(definition, find_one)
    /\ AccessKeyParsed(auth_header, password)
    /\ status = "success"

EventBuilt(definition, find_one, auth_header, password, status) ==
    /\ SparseCmdFound(definition, find_one)
    /\ AccessKeyParsed(auth_header, password)

\* lines 200-305: find_one returns; the event is built and its send reached,
\* which completes at once when the event channel has a free slot
ev_find_one(definition, find_one) ==
    /\ evTask.pc = "find_one"
    /\ ptTask' = [ptTask EXCEPT !.log =
           IF EventBuilt(definition, find_one, ptTask.auth_header,
                         eventAccessPassword, ptTask.status)
              /\ eventChan < EventCapacity
           THEN @ \o <<"find_one", "event">>
           ELSE IF EventBuilt(definition, find_one, ptTask.auth_header,
                              eventAccessPassword, ptTask.status)
           THEN @ \o <<"find_one", "event_wait">>
           ELSE Append(@, "find_one")]
    /\ IF EventBuilt(definition, find_one, ptTask.auth_header,
                     eventAccessPassword, ptTask.status)
       THEN IF eventChan < EventCapacity
            THEN /\ eventChan' = eventChan + 1
                 /\ evTask' = [pc |-> "done", definition |-> definition,
                               find_one |-> find_one]
            ELSE /\ eventChan' = eventChan
                 /\ evTask' = [pc |-> "send", definition |-> definition,
                               find_one |-> find_one]
       ELSE /\ eventChan' = eventChan
            /\ evTask' = [pc |-> "done", definition |-> definition,
                          find_one |-> find_one]
    /\ UNCHANGED <<metricChan, eventAccessPassword>>

\* lines 294-296: the waiting event send gets its slot
ev_send ==
    /\ evTask.pc = "send"
    /\ eventChan < EventCapacity
    /\ eventChan' = eventChan + 1
    /\ evTask' = [evTask EXCEPT !.pc = "done"]
    /\ ptTask' = [ptTask EXCEPT !.log = Append(@, "event")]
    /\ UNCHANGED <<metricChan, eventAccessPassword>>

\* the receiver of the metric channel takes a metric
metric_recv ==
    /\ metricChan > 0
    /\ metricChan' = metricChan - 1
    /\ UNCHANGED <<ptTask, evTask, eventChan, eventAccessPassword>>

\* the receiver of the event channel takes an event
event_recv ==
    /\ eventChan > 0
    /\ eventChan' = eventChan - 1
    /\ UNCHANGED <<ptTask, evTask, metricChan, eventAccessPassword>>

PtStart ==
    /\ \E connection_header \in BOOLEAN, auth_header \in AuthHeaders :
          pt_start(connection_header, auth_header)
    /\ UNCHANGED <<cvmVars, cmdVars, jwtVars, respVars, auxVars>>

PtGetConnection ==
    /\ \E found \in BOOLEAN : pt_get_connection(found)
    /\ UNCHANGED <<cvmVars, cmdVars, jwtVars, respVars, auxVars>>

PtDispatchError ==
    /\ pt_dispatch_error
    /\ UNCHANGED <<cvmVars, cmdVars, jwtVars, respVars, auxVars>>

PtDispatchResponse ==
    /\ \E status \in StatusClasses : pt_dispatch_response(status)
    /\ UNCHANGED <<cvmVars, cmdVars, jwtVars, respVars, auxVars>>

PtMetricSend ==
    /\ pt_metric_send
    /\ UNCHANGED <<cvmVars, cmdVars, jwtVars, respVars, auxVars>>

PtBytes ==
    /\ \E read \in BOOLEAN : pt_bytes(read)
    /\ UNCHANGED <<cvmVars, cmdVars, jwtVars, respVars, auxVars>>

PtCancel ==
    /\ pt_cancel
    /\ UNCHANGED <<cvmVars, cmdVars, jwtVars, respVars, auxVars>>

EvFindOne ==
    /\ \E definition \in {"match", "no match"}, find_one \in {"ok", "error"} :
          ev_find_one(definition, find_one)
    /\ UNCHANGED <<cvmVars, cmdVars, jwtVars, respVars, auxVars>>

EvSend ==
    /\ ev_send
    /\ UNCHANGED <<cvmVars, cmdVars, jwtVars, respVars, auxVars>>

MetricRecv ==
    /\ metric_recv
    /\ UNCHANGED <<cvmVars, cmdVars, jwtVars, respVars, auxVars>>

EventRecv ==
    /\ event_recv
    /\ UNCHANGED <<cvmVars, cmdVars, jwtVars, respVars, auxVars>>

(***************************************************************************)
(* Request materialisation: template context, variable bindings, path      *)
(***************************************************************************)
ParamNames == {"id", "hotel_id"}

ParamValues == {<<"H", "9">>, <<"X">>, <<"0", "7">>}

\* the secret of a connection, the caller's path_params and query_params:
\* a value or none under every name
ParamMaps == [ParamNames -> Option(ParamValues)]

NoParams == [k \in ParamNames |-> NoValue]

\* query maps with one entry at most
QueryMaps ==
    {NoParams} \cup { [NoParams EXCEPT ![k] = Some(<<"X">>)] : k \in ParamNames }

Digits == <<"0", "1", "2", "3", "4", "5", "6", "7", "8", "9">>

IsDigit(c) == \E i \in 1..Len(Digits) : Digits[i] = c

DigitValue(c) == (CHOOSE i \in 1..Len(Digits) : Digits[i] = c) - 1

IsNumeric(str) == Len(str) > 0 /\ \A i \in 1..Len(str) : IsDigit(str[i])

RECURSIVE ParseNumber(_)
ParseNumber(str) ==
    IF Len(str) = 0 THEN 0
    ELSE 10 * ParseNumber(SubSeq(str, 1, Len(str) - 1))
            + DigitValue(str[Len(str)])

RECURSIVE FormatNumber(_)
FormatNumber(n) ==
    IF n < 10 THEN <<Digits[n + 1]>>
    ELSE FormatNumber(n \div 10) \o <<Digits[(n % 10) + 1]>>

\* coercion by data_type: String as-is, Number by numeric parse; none is the
\* rejection with script_error
Coerce(data_type, value) ==
    CASE data_type = "String" -> Some(value)
      [] data_type = "Number" ->
            IF IsNumeric(value) THEN Some(FormatNumber(ParseNumber(value)))
            ELSE NoValue

\* the bindings of the mapping of the definition under test
MatBindings ==
    [variable_name : ParamNames, target_param : ParamNames,
     location : {"PathParam", "QueryParam"}, strategy : InjectionStrategy,
     data_type : {"String", "Number"}]

Lit(text) == [kind |-> "lit", text |-> text, name |-> ""]
Placeholder(name) == [kind |-> "param", text |-> <<>>, name |-> name]

\* the paths of the definitions: /h/{id} and /h/{hotel_id}/{id}
MatPaths ==
    { <<Lit(<<"/", "h", "/">>), Placeholder("id")>>,
      <<Lit(<<"/", "h", "/">>), Placeholder("hotel_id"), Lit(<<"/">>),
        Placeholder("id")>> }

\* the value of a key taken from the caller's path parameters alone
ContextValueCallerOnly(secret_value, path_param) == path_param

\* line 380: secret_result[key] = Value::String(val) replaces what the
\* secret held under the key; a key the caller did not name is not visited
ContextValue(secret_value, path_param) ==
    IF IsSome(path_param) THEN path_param ELSE secret_value

\* the context in which a key of the secret wins over the caller's
MergePathParamsSecretFirst(secret, path_params) ==
    [k \in ParamNames |->
        IF IsSome(secret[k]) THEN secret[k] ELSE path_params[k]]

\* lines 378-383: secret_result[key] = Value::String(val) for every caller
\* path parameter
MergePathParams(secret, path_params) ==
    [k \in ParamNames |-> ContextValue(secret[k], path_params[k])]

\* injection at a destination by strategy
Inject(strategy, destination, target_param, value) ==
    CASE strategy = "Strict" ->
            [destination EXCEPT ![target_param] = Some(value)]
      [] strategy = "Fallback" ->
            IF IsSome(destination[target_param]) THEN destination
            ELSE [destination EXCEPT ![target_param] = Some(value)]
      [] strategy = "Append" ->
            IF IsSome(destination[target_param])
            THEN [destination EXCEPT ![target_param] =
                     Some(Unwrap(destination[target_param]) \o <<",">>
                            \o value)]
            ELSE [destination EXCEPT ![target_param] = Some(value)]

\* one binding applied to the context execute_model_definition received and
\* to the caller's query map; a variable the context lacks injects nothing
ApplyBinding(context, query, binding) ==
    LET variable == context[binding.variable_name]
        coerced == Coerce(binding.data_type, Unwrap(variable))
    IN  IF ~IsSome(variable)
        THEN [status |-> OK, context |-> context, query |-> query]
        ELSE IF ~IsSome(coerced)
        THEN [status |-> "500 script_error", context |-> context,
              query |-> query]
        ELSE IF binding.location = "PathParam"
        THEN [status |-> OK,
              context |-> Inject(binding.strategy, context,
                                 binding.target_param, Unwrap(coerced)),
              query |-> query]
        ELSE [status |-> OK, context |-> context,
              query |-> Inject(binding.strategy, query,
                               binding.target_param, Unwrap(coerced))]

\* path substitution: every {name} replaced by the context's value of name
RECURSIVE RenderPath(_, _)
RenderPath(path, context) ==
    IF path = <<>> THEN <<>>
    ELSE LET seg == Head(path)
             text == IF seg.kind = "lit" THEN seg.text
                     ELSE IF IsSome(context[seg.name])
                     THEN Unwrap(context[seg.name])
                     ELSE <<>>
         IN  text \o RenderPath(Tail(path), context)

\* lines 378-397 and the materialisation of the outbound request
Materialise(secret, path_params, query_params, binding, path) ==
    LET context == MergePathParams(secret, path_params)
        bound == ApplyBinding(context, query_params, binding)
    IN  [secret |-> secret, path_params |-> path_params,
         query_params |-> query_params, binding |-> <<binding>>,
         template |-> path,
         passed |-> context,
         status |-> bound.status,
         context |-> bound.context,
         path |-> IF bound.status = OK THEN RenderPath(path, bound.context)
                  ELSE <<>>,
         query |-> bound.query]

MatIdle ==
    [secret |-> NoParams, path_params |-> NoParams, query_params |-> NoParams,
     binding |-> <<>>, template |-> <<>>, passed |-> NoParams,
     status |-> None, context |-> NoParams, path |-> <<>>,
     query |-> NoParams]

\* a request received and not yet materialised
MatPending(secret, path_params, query_params, binding, path) ==
    [MatIdle EXCEPT !.secret = secret, !.path_params = path_params,
                    !.query_params = query_params, !.binding = <<binding>>,
                    !.template = path]

MatRequests ==
    { MatPending(secret, path_params, query_params, binding, path) :
        secret \in ParamMaps, path_params \in ParamMaps,
        query_params \in QueryMaps, binding \in MatBindings,
        path \in MatPaths }

materialise ==
    /\ matTask.status = None
    /\ matTask.binding # <<>>
    /\ matTask' = Materialise(matTask.secret, matTask.path_params,
                              matTask.query_params, matTask.binding[1],
                              matTask.template)

MaterialiseRequest ==
    /\ materialise
    /\ UNCHANGED <<cvmVars, cmdVars, jwtVars, ptVars, knVars, cacheVars, lateVars>>

(***************************************************************************)
(* read_knowledge                                                          *)
(***************************************************************************)
\* texts are sequences of pieces, so that format! and join are computed
KnowledgeTexts == {<<"how to list rooms">>}

Knowledge == [id : DefinitionIds, knowledge : Option(KnowledgeTexts)]

\* the pages of knowledge rows get_many returns: ids are unique
KnowledgePages ==
    {<<>>} \cup { <<a>> : a \in Knowledge }
           \cup UNION { { <<a, b>> : b \in { k \in Knowledge : k.id # a.id } } :
                         a \in Knowledge }

TargetParams == {"id", "domain"}

KnBinding(target_param, strategy) ==
    [variable_name |-> "hotel_id", target_param |-> target_param,
     location |-> "PathParam", strategy |-> strategy, data_type |-> "String"]

\* the binding lists of the mappings knowledge is enriched with
KnBindingLists ==
    { <<>>,
      <<KnBinding("id", "Strict")>>,
      <<KnBinding("id", "Fallback"), KnBinding("domain", "Append")>>,
      <<KnBinding("domain", "Append"), KnBinding("id", "Fallback")>>,
      <<KnBinding("id", "Strict"), KnBinding("domain", "Strict")>> }

KnMapping(id) ==
    [id : {id},
     connection_model_definition_id : DefinitionIds,
     connection_platform : Platforms,
     bindings : KnBindingLists,
     ownership : {"t1"},
     deleted : BOOLEAN,
     updated : {FALSE}]

\* mapping stores of up to MaxMappings rows
KnStores ==
    {{}} \cup { {a} : a \in KnMapping(1) }
         \cup { {a, b} : a \in KnMapping(1), b \in KnMapping(MaxMappings) }

\* every strategy annotated as Strict is
StrategyAnnotationAllStrict(strategy) ==
    "' (auto-filled, do NOT ask user)"

\* lines 80-90: the annotation of a binding's strategy
StrategyAnnotation(strategy) ==
    CASE strategy = "Strict" -> "' (auto-filled, do NOT ask user)"
      [] strategy = "Fallback" ->
            "' (has default, only ask if user wants to override)"
      [] strategy = "Append" ->
            "' (partially pre-filled, user may add more)"

\* lines 79-91: param_list
RECURSIVE ParamList(_)
ParamList(bindings) ==
    IF bindings = <<>> THEN <<>>
    ELSE << <<"'", Head(bindings).target_param,
              StrategyAnnotation(Head(bindings).strategy)>> >>
            \o ParamList(Tail(bindings))

\* [String]::join
RECURSIVE Join(_, _)
Join(list, sep) ==
    IF list = <<>> THEN <<>>
    ELSE IF Len(list) = 1 THEN Head(list)
    ELSE Head(list) \o <<sep>> \o Join(Tail(list), sep)

\* lines 77-95: the annotations of one mapping
Annotations(m) ==
    <<"IMPORTANT: ">>
        \o <<"The following parameters are automatically handled by the system and do NOT need to be retrieved or asked for: ">>
        \o Join(ParamList(m.bindings), ", ")
        \o <<".\n\n">>

\* lines 52-68: get_many {connectionModelDefinitionId: {$in}, deleted: false}
AllMappings(store, rows, fault) ==
    IF rows = <<>> \/ fault = "mappings error" THEN {}
    ELSE { m \in store :
             /\ ~m.deleted
             /\ \E i \in 1..Len(rows) :
                   rows[i].id = m.connection_model_definition_id }

\* lines 71-74: the maps collect() can build; of two mappings of one
\* definition the one get_many returns last stays, and get_many has no sort
MappingMaps(all_mappings) ==
    LET keys == { m.connection_model_definition_id : m \in all_mappings }
    IN  { f \in [keys -> all_mappings] :
            \A k \in keys : f[k].connection_model_definition_id = k }

\* lines 76-107: the enriched rows
EnrichedRows(rows, mapping_map) ==
    [i \in 1..Len(rows) |->
        IF rows[i].id \in DOMAIN mapping_map
        THEN [rows[i] EXCEPT !.knowledge =
                 Some(Annotations(mapping_map[rows[i].id])
                        \o (IF IsSome(rows[i].knowledge)
                            THEN Unwrap(rows[i].knowledge) ELSE <<>>))]
        ELSE rows[i]]

KnFaults == {"none", "rows error", "count error", "mappings error"}

KnIdle == [status |-> None, rows |-> <<>>, fault |-> "none", out |-> <<>>]

\* GET /knowledge
read_knowledge(rows, fault, mapping_map) ==
    knResp' = IF fault \in {"rows error", "count error"}
              THEN [status |-> "store error", rows |-> rows, fault |-> fault,
                    out |-> <<>>]
              ELSE [status |-> OK, rows |-> rows, fault |-> fault,
                    out |-> EnrichedRows(rows, mapping_map)]

ReadKnowledge ==
    /\ \E rows \in KnowledgePages, fault \in KnFaults :
          \E mapping_map \in MappingMaps(AllMappings(cvmStore, rows, fault)) :
             read_knowledge(rows, fault, mapping_map)
    /\ UNCHANGED <<cvmVars, cmdVars, jwtVars, ptVars, matVars, cacheVars, lateVars>>

(***************************************************************************)
(* Connection cache and connection definition names                        *)
(***************************************************************************)
ConnectionDefinitionNames == {"Hotels", "Updated Definition Name"}

\* the connections of the store: key, tenant and connection definition
Connections ==
    { [key |-> "c1", ownership |-> "t1", connection_definition_id |-> "d1"],
      [key |-> "c2", ownership |-> "t1", connection_definition_id |-> "d2"],
      [key |-> "c3", ownership |-> "t2", connection_definition_id |-> "d1"] }

ConnectionKeys == <<"c1", "c2", "c3">>

\* a connection with the projected name of its definition
SanitizedConnection(c, names) ==
    [key |-> c.key, ownership |-> c.ownership,
     connection_definition_id |-> c.connection_definition_id,
     connection_definition_name |-> names[c.connection_definition_id]]

CacheIndex(cache, tenant, key) ==
    { i \in 1..Len(cache) :
        cache[i].ownership = tenant /\ cache[i].key = key }

RemoveAt(seq, i) == SubSeq(seq, 1, i - 1) \o SubSeq(seq, i + 1, Len(seq))

\* insertion at the most recently used end, the least recently used entry
\* leaving a full cache
CachePut(cache, row) ==
    LET kept == IF Len(cache) >= CacheCapacity THEN Tail(cache) ELSE cache
    IN  Append(kept, row)

\* one lookup: the cached row on a hit, the stored one on a miss
CacheGet(cache, c, names) ==
    LET hit == CacheIndex(cache, c.ownership, c.key)
    IN  IF hit # {}
        THEN LET i == CHOOSE j \in hit : TRUE
             IN  [row |-> cache[i], cache |-> Append(RemoveAt(cache, i), cache[i])]
        ELSE LET row == SanitizedConnection(c, names)
             IN  [row |-> row, cache |-> CachePut(cache, row)]

\* the connections of a tenant in key order, read through the cache
RECURSIVE ReadThrough(_, _, _, _)
ReadThrough(keys, tenant, cache, names) ==
    IF keys = <<>> THEN [rows |-> {}, cache |-> cache]
    ELSE LET own == { c \in Connections :
                        c.key = Head(keys) /\ c.ownership = tenant }
         IN  IF own = {} THEN ReadThrough(Tail(keys), tenant, cache, names)
             ELSE LET got == CacheGet(cache, CHOOSE c \in own : TRUE, names)
                      rest == ReadThrough(Tail(keys), tenant, got.cache, names)
                  IN  [rows |-> {got.row} \cup rest.rows, cache |-> rest.cache]

\* a definition update that leaves the cache as it is
InvalidateNothing(cache, definition_id) == cache

\* invalidation: the entries of the connections of a definition leave
Invalidate(cache, definition_id) ==
    SelectSeq(cache, LAMBDA row : row.connection_definition_id # definition_id)

\* what a response keeps of the request answered before it
ConnSummary(resp) ==
    [op |-> resp.op, definition_id |-> resp.definition_id,
     invalidated |-> resp.invalidated]

ConnIdle ==
    [op |-> None, status |-> None, rows |-> {}, definition_id |-> None,
     invalidated |-> 0,
     prev |-> [op |-> None, definition_id |-> None, invalidated |-> 0]]

\* GET /connections
get_connections(tenant) ==
    LET read == ReadThrough(ConnectionKeys, tenant, connCache, defNames)
    IN  /\ connCache' = read.cache
        /\ connResp' = [op |-> "read", status |-> OK, rows |-> read.rows,
                        definition_id |-> None, invalidated |-> 0,
                        prev |-> ConnSummary(connResp)]
        /\ UNCHANGED defNames

\* PATCH /connection-definitions/:id
update_connection_definition(definition_id, name, fault) ==
    LET cache == IF defNames[definition_id] # name
                 THEN Invalidate(connCache, definition_id)
                 ELSE connCache
    IN  IF fault
        THEN /\ connResp' = [op |-> "update", status |-> "store error",
                             rows |-> {}, definition_id |-> definition_id,
                             invalidated |-> 0,
                             prev |-> ConnSummary(connResp)]
             /\ UNCHANGED <<defNames, connCache>>
        ELSE /\ defNames' = [defNames EXCEPT ![definition_id] = name]
             /\ connCache' = cache
             /\ connResp' = [op |-> "update", status |-> OK, rows |-> {},
                             definition_id |-> definition_id,
                             invalidated |-> Len(connCache) - Len(cache),
                             prev |-> ConnSummary(connResp)]

GetConnections ==
    /\ \E tenant \in Tenants : get_connections(tenant)
    /\ UNCHANGED <<cvmVars, cmdVars, jwtVars, ptVars, matVars, knVars, lateVars>>

UpdateConnectionDefinition ==
    /\ \E definition_id \in DefinitionIds, name \in ConnectionDefinitionNames,
          fault \in BOOLEAN :
          update_connection_definition(definition_id, name, fault)
    /\ UNCHANGED <<cvmVars, cmdVars, jwtVars, ptVars, matVars, knVars, lateVars>>

(***************************************************************************)
(* Passthrough: the headers handed to the dispatcher, the sparse           *)
(* definition of the audit event, the event name and the two channel sends *)
(***************************************************************************)
\* config.headers.connection_header, config.headers.auth_header and the id
\* header
ConnectionHeader == "x-pica-connection-key"
AuthHeader == "x-pica-secret"
QUERY_BY_ID_PASSTHROUGH == "x-pica-id-passthrough"

InboundNames ==
    {ConnectionHeader, AuthHeader, QUERY_BY_ID_PASSTHROUGH, "host", "x-trace"}

\* the inbound HeaderMap: the values held under each name, in order
InboundHeaderMaps ==
    { [n \in InboundNames |->
          CASE n = ConnectionHeader -> c
            [] n = AuthHeader -> a
            [] n = QUERY_BY_ID_PASSTHROUGH -> i
            [] n = "host" -> <<"gateway">>
            [] n = "x-trace" -> t]
      : c \in {<<>>, <<"c1">>},
        a \in {<<>>, <<"access key">>, <<"not a key">>},
        i \in {<<>>, <<"d3">>},
        t \in {<<>>, <<"a">>, <<"a", "b">>} }

\* HeaderMap::get: the first value held under the name
HeaderGet(map, name) ==
    IF map[name] = <<>> THEN NoValue ELSE Some(map[name][1])

\* HeaderMap::remove: every value held under the name goes
HeaderRemove(map, name) == [map EXCEPT ![name] = <<>>]

\* the header map with the auth header removed only
ForwardedWithConnectionHeader(headers) == HeaderRemove(headers, AuthHeader)

\* lines 129-130, 154: the header map dispatch_destination_request receives
Forwarded(headers) ==
    HeaderRemove(HeaderRemove(headers, AuthHeader), ConnectionHeader)

\* the connection get_connection resolved
AuditConnection ==
    [platform |-> "stripe", platform_version |-> "v1", key |-> "c1"]

\* the request line: uri.path() and method
AuditPath == "/v1/charges"
AuditMethod == "POST"

\* documents of the connection-model-definitions collection with the fields
\* SparseCMD projects, model_name and the two lifecycle flags
AuditDefinition(id, platform, name, model_name, active, deleted) ==
    [id |-> id, connection_platform |-> platform, path |-> AuditPath,
     action |-> AuditMethod, name |-> name, model_name |-> model_name,
     action_name |-> "create", active |-> active, deleted |-> deleted]

AuditDefinitions ==
    { AuditDefinition("d1", "stripe", "charge", "Charges", TRUE, FALSE),
      AuditDefinition("d2", "stripe", "charge v0", "Charges", TRUE, TRUE),
      AuditDefinition("d3", "square", "payment", "Payments", TRUE, FALSE),
      AuditDefinition("d4", "stripe", "charge draft", "Charges", FALSE, FALSE) }

\* lines 218-228: the filter of the spawned task's find_one
SparseCmdQuery(id_str, connection_platform, path, method) ==
    IF IsSome(id_str)
    THEN [by |-> "_id", id |-> Unwrap(id_str)]
    ELSE [by |-> "route", connectionPlatform |-> connection_platform,
          path |-> path, action |-> method]

SparseCmdMatches(query, d) ==
    IF query.by = "_id" THEN d.id = query.id
    ELSE /\ d.connection_platform = query.connectionPlatform
         /\ d.path = query.path
         /\ d.action = query.action

\* lines 230-236: what find_one(query).await.ok().flatten() can give: a
\* matching document, or none when there is none or the read failed
SparseCmdFindOne(store, query) ==
    {NoValue} \cup { Some(d) : d \in { x \in store : SparseCmdMatches(query, x) } }

\* the definitions that serve a passthrough request: connection platform,
\* path, upper-cased method, active and not deleted
ServingDefinitions(store, connection_platform, path, method) ==
    { d \in store : /\ d.connection_platform = connection_platform
                    /\ d.path = path /\ d.action = method
                    /\ d.active /\ ~d.deleted }

\* lines 266-278: event_name and name
EventName(connection_platform, connection_platform_version, cmd, status_code) ==
    connection_platform \o "::" \o connection_platform_version \o "::"
        \o cmd.name \o "::" \o cmd.action_name
        \o (IF is_success(status_code) THEN "::request-succeeded"
                                       ELSE "::request-failed")

\* the outcomes of Sender::send: delivered, or an error when the receiver
\* is gone
SendOutcomes == {"ok", "closed"}

\* the response of a handler that gives up when the metric send fails
AfterMetricSendPropagating(sent, response) ==
    IF sent = "ok" THEN response
    ELSE [outcome |-> "send error", status |-> 0, body |-> ""]

\* lines 307-310: the error of metric_tx.send is logged and dropped
AfterMetricSend(sent, response) == response

\* lines 313-324: the body is read and (status, headers, bytes) returned, or
\* the read fails
BytesResponse(status_code, bytes) ==
    IF bytes = "read"
    THEN [outcome |-> OK, status |-> status_code, body |-> "bytes"]
    ELSE [outcome |-> "500 script_error", status |-> 0, body |-> ""]

AuditInputs ==
    [headers : InboundHeaderMaps,
     store : SUBSET AuditDefinitions,
     dispatch : {"response", "error"},
     status : UpstreamStatuses,
     bytes : {"read", "error"},
     metric_send : SendOutcomes,
     event_send : SendOutcomes]

AuditStopped(in, outcome, forwarded) ==
    [pc |-> "done", in |-> in, forwarded |-> forwarded, query |-> NoValue,
     event |-> NoValue, metric |-> None,
     resp |-> [outcome |-> outcome, status |-> 0, body |-> ""]]

\* lines 40-325 with the spawned task of lines 200-305: found is what its
\* find_one gave; the dispatcher answers only when a definition serves the
\* request
AuditRun(in, found) ==
    LET id_str == HeaderGet(in.headers, QUERY_BY_ID_PASSTHROUGH)
        query == SparseCmdQuery(id_str, AuditConnection.platform, AuditPath,
                                AuditMethod)
        secret == HeaderGet(in.headers, AuthHeader)
        built == /\ IsSome(found)
                 /\ AccessKeyParsed(Unwrap(secret), PASSWORD_OK)
    IN  IF ~IsSome(HeaderGet(in.headers, ConnectionHeader)) \/ ~IsSome(secret)
        THEN AuditStopped(in, BAD_REQUEST, NoValue)
        ELSE IF \/ in.dispatch = "error"
                \/ ServingDefinitions(in.store, AuditConnection.platform,
                                      AuditPath, AuditMethod) = {}
        THEN AuditStopped(in, "dispatch error", Some(Forwarded(in.headers)))
        ELSE [pc |-> "done", in |-> in,
              forwarded |-> Some(Forwarded(in.headers)),
              query |-> Some(query),
              event |-> IF built
                        THEN Some([name |-> EventName(AuditConnection.platform,
                                             AuditConnection.platform_version,
                                             Unwrap(found), in.status),
                                   definition |-> Unwrap(found),
                                   sent |-> in.event_send])
                        ELSE NoValue,
              metric |-> in.metric_send,
              resp |-> AfterMetricSend(in.metric_send,
                                       BytesResponse(in.status, in.bytes))]

AuditIdle ==
    [pc |-> "idle", in |-> None, forwarded |-> NoValue, query |-> NoValue,
     event |-> NoValue, metric |-> None,
     resp |-> [outcome |-> None, status |-> 0, body |-> ""]]

\* a request received, not yet handled
AuditPending(in) == [AuditIdle EXCEPT !.pc = "pending", !.in = in]

\* passthrough_request handles the request received
audit_passthrough_request(found) ==
    /\ auditTask.pc = "pending"
    /\ found \in SparseCmdFindOne(auditTask.in.store,
           SparseCmdQuery(HeaderGet(auditTask.in.headers,
                                    QUERY_BY_ID_PASSTHROUGH),
                          AuditConnection.platform, AuditPath, AuditMethod))
    /\ auditTask' = AuditRun(auditTask.in, found)

AuditPassthroughRequest ==
    /\ \E found \in Option(AuditDefinitions) : audit_passthrough_request(found)
    /\ UNCHANGED <<cvmVars, cmdVars, jwtVars, ptVars, matVars, knVars,
                   cacheVars, batchTask, testConn>>

(***************************************************************************)
(* Definitions under their tenant filter and under concurrent writers: an  *)
(* update_many item suspends at the await of get_one and at the await of   *)
(* update_one; a definition test resolves its connection first.            *)
(***************************************************************************)
\* helper::shape_mongo_filter(None, event_access, None): deleted:false and,
\* when an EventAccess is given, the clause on its ownership
ShapeMongoFilter(event_access) ==
    [ownership |-> event_access, deleted |-> FALSE]

\* a document passes the filter
FilterMatches(filter, r) ==
    /\ r.deleted = filter.deleted
    /\ IsSome(filter.ownership) => r.ownership = filter.ownership

\* the filter of an item shaped without the caller's EventAccess
UpdateManyQueryNoAccess(access, id_str) ==
    [filter |-> ShapeMongoFilter(NoValue), id |-> id_str]

\* lines 130-139: shape_mongo_filter(None, access, None) with _id inserted
UpdateManyQuery(access, id_str) ==
    [filter |-> ShapeMongoFilter(access), id |-> id_str]

\* line 143: store.get_one(query.filter)
UpdateManyFound(store, query) ==
    { r \in store : r.id = query.id /\ FilterMatches(query.filter, r) }

\* a stored definition with the ownership its document carries, if any
WithOwnership(d, ownership) == d @@ [ownership |-> ownership]

\* the items of the payloads: no id, the id of the stored definition with
\* no field or with model_name, and an id no definition has
WriterItems ==
    { PartialOfId(NoValue), PartialOfId(Some(1)),
      [PartialOfId(Some(1)) EXCEPT !.model_name = Some(<<"O">>)],
      PartialOfId(Some(2)) }

BatchIdle ==
    [pc |-> "idle", access |-> NoValue, request |-> PartialOfId(NoValue),
     record |-> NoValue, result |-> NoValue, wrote |-> FALSE, read_runs |-> 0]

\* lines 117-142, 236-251: the id of the item is read, the filter shaped and
\* get_one awaited; an item without id, without record or whose read failed
\* is reported at once
batch_get_one(access, request, fault) ==
    LET start == [BatchIdle EXCEPT !.access = access, !.request = request,
                                   !.read_runs = testConn.runs]
        reported(result) ==
            [start EXCEPT !.pc = "done", !.result = Some(result)]
    IN  /\ batchTask.pc \in {"idle", "done"}
        /\ batchTask' =
             IF ~IsSome(request.id) THEN reported(MissingIdResult)
             ELSE IF fault = "get_one error"
             THEN reported(BatchResult(request.id, FALSE, fault))
             ELSE LET found == UpdateManyFound(cmdStore,
                                   UpdateManyQuery(access, Unwrap(request.id)))
                  IN  IF found = {}
                      THEN reported(NotFoundResult(Unwrap(request.id)))
                      ELSE [start EXCEPT
                               !.pc = "read",
                               !.record = Some(CHOOSE r \in found : TRUE)]
        /\ UNCHANGED <<cmdStore, cmdNextId, cmdReq, cmdResp, testTask,
                       testConn>>

\* lines 143-218: the record read is merged with the item, its key made
\* again and the whole record written with update_one(id, {$set: record})
batch_update_one ==
    /\ batchTask.pc = "read"
    /\ LET id == Unwrap(batchTask.request.id)
           merged == CmdMergeAndKey(batchTask.request,
                                    Unwrap(batchTask.record))
       IN  /\ cmdStore' = CmdUpdateOne(cmdStore, id, merged)
           /\ batchTask' = [batchTask EXCEPT
                               !.pc = "done", !.wrote = TRUE,
                               !.result = Some(BatchResult(Some(id), TRUE, ""))]
    /\ UNCHANGED <<cmdNextId, cmdReq, cmdResp, testTask, testConn>>

\* rows of the connections collection: key, tenant, secret, deleted
TestConnections ==
    { [key |-> "k1", ownership |-> "t1", secrets_service_id |-> "s1",
       deleted |-> FALSE],
      [key |-> "k1", ownership |-> "t2", secrets_service_id |-> "s2",
       deleted |-> FALSE],
      [key |-> "k2", ownership |-> "t2", secrets_service_id |-> "s3",
       deleted |-> FALSE],
      [key |-> "k3", ownership |-> "t1", secrets_service_id |-> "s4",
       deleted |-> TRUE] }

TestConnectionKeys == {"k1", "k2", "k3"}

\* the connection filter without the clause on ownership
ConnectionLookupAnyTenant(connections, access, connection_key) ==
    { c \in connections : c.key = connection_key /\ ~c.deleted }

\* lines 306-314: get_one {key, ownership.buildableId, deleted: false}
ConnectionLookup(connections, access, connection_key) ==
    { c \in connections : /\ c.key = connection_key
                          /\ c.ownership = access
                          /\ ~c.deleted }

TestConnIdle ==
    [runs |-> 0, access |-> None, connection_key |-> None,
     connection |-> NoValue]

\* lines 300-476 with the connection read against the collection: the
\* handler goes on with the connection get_one gave
test_connection_as(access, connection_key, connection, id, stop, status_code, response_body, request_string) ==
    LET found == ConnectionLookup(TestConnections, access, connection_key)
    IN  /\ testConn.runs < MaxTests
        /\ stop # "connection none"
        /\ connection \in
             (IF stop = "connection error" \/ found = {}
              THEN {NoValue} ELSE {Some(c) : c \in found})
        /\ test_connection_model_definition(
              id,
              IF stop # "connection error" /\ found = {}
              THEN "connection none" ELSE stop,
              status_code, response_body, request_string)
        /\ testConn' = [runs |-> testConn.runs + 1, access |-> access,
                        connection_key |-> connection_key,
                        connection |-> connection]

BatchGetOne ==
    /\ \E access \in Option(Tenants), request \in WriterItems,
          fault \in {"none", "get_one error"} :
          batch_get_one(access, request, fault)
    /\ UNCHANGED <<cvmVars, jwtVars, ptVars, matVars, knVars, cacheVars,
                   auditTask>>

BatchUpdateOne ==
    /\ batch_update_one
    /\ UNCHANGED <<cvmVars, jwtVars, ptVars, matVars, knVars, cacheVars,
                   auditTask>>

TestConnectionAs ==
    /\ \E access \in Tenants, connection_key \in TestConnectionKeys,
          connection \in Option(TestConnections),
          stop \in {"none", "connection error", "secret error"},
          status_code \in {200, 500} :
          /\ stop # "none" => status_code = 500
          /\ test_connection_as(access, connection_key, connection, 1, stop,
                                status_code, "pong", "{}")
    /\ UNCHANGED <<cvmVars, jwtVars, ptVars, matVars, knVars, cacheVars,
                   auditTask, batchTask>>

LateIdle == /\ auditTask = AuditIdle /\ batchTask = BatchIdle
            /\ testConn = TestConnIdle

AuxIdle == /\ matTask = MatIdle /\ knResp = KnIdle
           /\ defNames = [d \in DefinitionIds |-> "Hotels"]
           /\ connCache = <<>> /\ connResp = ConnIdle
           /\ LateIdle

(***************************************************************************)
(* create_mapping as concurrent tasks: the handler suspends at the await   *)
(* of get_many and at the await of create_one, so the existence check and  *)
(* the insert of one request are separate steps.                           *)
(***************************************************************************)
Creators == 1..NumCreators

\* lines 164-189: the existence check and the conflict return
RaceCheck(c) ==
    \E access \in Tenants, payload \in CvmCreateRequest :
        /\ creators[c].pc = "idle"
        /\ creators' = [creators EXCEPT ![c] =
               IF CvmExisting(cvmStore, payload, access) # {}
               THEN [pc |-> "done", access |-> access, payload |-> payload,
                     status |-> CONFLICT]
               ELSE [pc |-> "checked", access |-> access, payload |-> payload,
                     status |-> None]]
        /\ UNCHANGED <<cvmStore, cvmNextId, cvmReq, cvmResp>>

\* lines 192-202: build the record, create_one, 201
RaceInsert(c) ==
    /\ creators[c].pc = "checked"
    /\ cvmStore' = cvmStore \cup
           {CvmAccess(creators[c].payload, creators[c].access, cvmNextId)}
    /\ cvmNextId' = cvmNextId + 1
    /\ creators' = [creators EXCEPT ![c].pc = "done", ![c].status = CREATED]
    /\ UNCHANGED <<cvmReq, cvmResp>>

(***************************************************************************)
(* Specifications of the mapping handlers                                  *)
(***************************************************************************)
CmdIdle == /\ cmdStore = {} /\ cmdNextId = 1
           /\ cmdReq = CmdRequest(None)
           /\ cmdResp = [status |-> None, results |-> <<>>]
           /\ testTask = TestIdle

JwtNoResponse == JwtError(None, "", "none")

JwtQuiet == /\ jwtReq = [header |-> "missing", token |-> NoToken]
            /\ jwtResp = JwtNoResponse
            /\ jwtPrev = JwtNoResponse

JwtIdle == /\ jwtConfig = [buildable_secret |-> <<>>, jwt_secret |-> <<"j">>]
           /\ JwtQuiet

RespIdle == ptUpstream = NoUpstream /\ ptResp = PtError(None)

PtIdle == RespIdle /\ FanIdle

CvmInit == CvmIdle /\ AuxIdle /\ CmdIdle /\ JwtIdle /\ PtIdle

\* update and delete requests of one caller: their outcome does not depend
\* on the caller, which SpecCvmTenants checks with every caller
OneCallerUpdate ==
    /\ \E id \in 1..MaxMappings, payload \in CvmCreateRequest :
          update_mapping("t1", id, payload)
    /\ UNCHANGED <<cmdVars, jwtVars, ptVars, auxVars>>

OneCallerDelete ==
    /\ \E id \in 1..MaxMappings : delete_mapping("t1", id)
    /\ UNCHANGED <<cmdVars, jwtVars, ptVars, auxVars>>

CvmNext == CreateMapping \/ OneCallerUpdate \/ OneCallerDelete

\* the three handlers, one request at a time
SpecCvm == CvmInit /\ [][CvmNext]_vars

RaceCheckStep ==
    /\ \E c \in Creators : RaceCheck(c)
    /\ UNCHANGED <<cmdVars, jwtVars, ptVars, auxVars>>

RaceInsertStep ==
    /\ \E c \in Creators : RaceInsert(c)
    /\ UNCHANGED <<cmdVars, jwtVars, ptVars, auxVars>>

RaceNext == RaceCheckStep \/ RaceInsertStep

\* concurrent create_mapping requests on an empty collection
SpecCvmRace == CvmInit /\ [][RaceNext]_vars

LiveFor(defId) == CvmByDefinition(cvmStore, defId)

\* C1: two concurrent creates for one connection_model_definition_id, started
\* while no live mapping exists for it: exactly one answers 201, the other
\* 409, and one live mapping for the id is stored.
C1_RaceLoserGetsConflict ==
    \A a, b \in Creators :
        (/\ a # b
         /\ creators[a].pc = "done" /\ creators[b].pc = "done"
         /\ creators[a].payload.connection_model_definition_id
              = creators[b].payload.connection_model_definition_id)
        => /\ {creators[a].status, creators[b].status} = {CREATED, CONFLICT}
           /\ Cardinality(LiveFor(creators[a].payload.connection_model_definition_id)) = 1

\* C2: a create for a definition id that already has a live mapping (of any
\* tenant) answers conflict and leaves every row as it was.
C2_CreateConflictNoNewRow ==
    [][ (/\ cvmReq'.op = "create"
         /\ CvmByDefinition(cvmStore,
                cvmReq'.payload.connection_model_definition_id) # {})
        => (cvmResp'.status = CONFLICT /\ cvmStore' = cvmStore) ]_vars

C2_Witness ==
    /\ cvmReq.op = "create"
    /\ cvmResp.status = CONFLICT
    /\ \E r \in cvmStore :
          /\ ~r.deleted
          /\ r.connection_model_definition_id
               = cvmReq.payload.connection_model_definition_id
          /\ r.ownership # cvmReq.access

\* C3: at most one live mapping per connection_model_definition_id, across
\* tenants, after any sequence of create, update and delete requests.
C3_AtMostOneLivePerDefinition ==
    \A d \in DefinitionIds : Cardinality(LiveFor(d)) <= 1

(***************************************************************************)
(* Specification of the definition handlers                                *)
(***************************************************************************)
CmdNext ==
    \/ CmdCreate \/ CmdUpdateOneRecord \/ CmdDelete
    \/ UpdateManyBegin \/ UpdateManyNextItem \/ UpdateManyEnd

SpecCmd == CvmInit /\ [][CmdNext]_vars

\* C4: after every write of a definition (create, single update, batch item)
\* the stored key is the lowercase of api::platform::version::model::action::
\* path::name computed from that stored record's own fields.
C4_KeyMatchesStoredFields ==
    \A r \in cmdStore : r.key = KeyOfRecord(r)

(***************************************************************************)
(* Specification of the bearer token middleware                            *)
(***************************************************************************)
JwtInit == /\ CvmIdle /\ AuxIdle /\ CmdIdle /\ PtIdle
           /\ jwtConfig \in JwtConfigs
           /\ JwtQuiet

JwtNext == JwtRequest

SpecJwt == JwtInit /\ [][JwtNext]_vars

Bearer == jwtReq.header = "bearer" /\ jwtReq.token.wellFormed
HasBuildableId ==
    IsSome(jwtReq.token.buildable_id) /\ Unwrap(jwtReq.token.buildable_id) # <<>>
OtherwiseValid ==
    /\ Bearer
    /\ jwtReq.token.expOk /\ jwtReq.token.audIssOk /\ jwtReq.token.fullClaims
Handled == jwtResp.stage # "none"

C6_OwnClassKeyExactly ==
    (Handled /\ OtherwiseValid) =>
        LET t == jwtReq.token
            core == CoreSecret(jwtConfig)
            user == UserSecret(jwtConfig, Unwrap(t.buildable_id))
        IN  /\ t.is_buildable_core => (jwtResp.nextRan <=> t.signedWith = core)
            /\ (~t.is_buildable_core /\ HasBuildableId)
                 => (jwtResp.nextRan <=> t.signedWith = user)
            /\ (t.is_buildable_core /\ HasBuildableId /\ t.signedWith = user)
                 => ~jwtResp.nextRan
            /\ (~t.is_buildable_core /\ HasBuildableId /\ t.signedWith = core)
                 => ~jwtResp.nextRan

C6_Witness ==
    /\ Handled /\ OtherwiseValid /\ ~jwtReq.token.is_buildable_core
    /\ HasBuildableId
    /\ jwtReq.token.signedWith
         = UserSecret(jwtConfig, Unwrap(jwtReq.token.buildable_id))
    /\ jwtResp.nextRan

\* C7 as stated: a user token whose buildableId is absent or empty, signed
\* with JWT_SECRET alone and otherwise valid, is accepted.
C7_AbsentOrEmptyIdAccepted ==
    (/\ Handled /\ OtherwiseValid /\ ~jwtReq.token.is_buildable_core
     /\ ~HasBuildableId
     /\ jwtReq.token.signedWith = jwtConfig.jwt_secret)
    => jwtResp.nextRan

\* C7 amended: with an empty buildableId the key is JWT_SECRET alone and the
\* token signed with it is accepted; with buildableId absent no key is
\* derived and the token is answered 401 whatever it is signed with.
C7_EmptyIdAcceptedAbsentIdUnauthorized ==
    (Handled /\ Bearer /\ ~jwtReq.token.is_buildable_core) =>
        /\ (/\ OtherwiseValid
             /\ jwtReq.token.buildable_id = Some(<<>>)
             /\ jwtReq.token.signedWith = jwtConfig.jwt_secret)
            => jwtResp.nextRan
        /\ (/\ jwtReq.token.buildable_id = NoValue
             /\ jwtReq.token.expOk /\ jwtReq.token.audIssOk)
            => /\ ~jwtResp.nextRan
               /\ jwtResp.status = UNAUTHORIZED
               /\ jwtResp.message = MsgMissingBuildableId

C7_Witness ==
    /\ Handled /\ OtherwiseValid /\ ~jwtReq.token.is_buildable_core
    /\ jwtReq.token.buildable_id = NoValue
    /\ jwtReq.token.signedWith = jwtConfig.jwt_secret
    /\ jwtResp.status = UNAUTHORIZED /\ ~jwtResp.nextRan

\* C8: no header, a header that is not "Bearer <jwt>" and a malformed token
\* are answered 401; a well-formed token whose signature does not match the
\* derived key is answered 403.
C8_ErrorClasses ==
    Handled =>
        /\ jwtReq.header # "bearer"
             => (jwtResp.status = UNAUTHORIZED /\ ~jwtResp.nextRan)
        /\ (jwtReq.header = "bearer" /\ ~jwtReq.token.wellFormed)
             => (jwtResp.status = UNAUTHORIZED /\ ~jwtResp.nextRan)
        /\ (/\ Bearer
             /\ GetDecodingKey(jwtConfig, jwtReq.token).ok
             /\ jwtReq.token.signedWith
                  # GetDecodingKey(jwtConfig, jwtReq.token).key)
             => (jwtResp.status = FORBIDDEN /\ ~jwtResp.nextRan)

C8_Witness ==
    /\ Handled /\ OtherwiseValid
    /\ GetDecodingKey(jwtConfig, jwtReq.token).ok
    /\ jwtReq.token.signedWith # GetDecodingKey(jwtConfig, jwtReq.token).key
    /\ jwtResp.status = FORBIDDEN /\ ~jwtResp.nextRan

\* C9 as stated: a token rejected at the peek and a token rejected at the
\* keyed verification receive the same status and message.
C9_StagesIndistinguishable ==
    (jwtPrev.stage = "peek" /\ jwtResp.stage = "verify")
    => (jwtPrev.status = jwtResp.status /\ jwtPrev.message = jwtResp.message)

\* C9 amended: every rejection at the keyed verification is 403 with the
\* one fixed message, whichever check failed, and every rejection at the
\* peek is 401 with a message of its own, so the stage is visible.
C9_StageDecidesError ==
    /\ jwtResp.stage = "verify"
         => (jwtResp.status = FORBIDDEN /\ jwtResp.message = MsgNotAuthorized)
    /\ jwtResp.stage = "peek"
         => /\ jwtResp.status = UNAUTHORIZED
            /\ jwtResp.message \in {MsgInvalidFormat, MsgMissingBuildableId}

C9_Witness ==
    /\ jwtPrev.stage = "peek" /\ jwtPrev.status = UNAUTHORIZED
    /\ jwtResp.stage = "verify" /\ jwtResp.status = FORBIDDEN

(***************************************************************************)
(* Specification of the passthrough response                               *)
(***************************************************************************)
PtNext == PassthroughRejected \/ PassthroughAnswered

SpecPassthrough == CvmInit /\ [][PtNext]_vars

\* C10: in a successful passthrough response the upstream Content-Length is
\* forwarded under its own name with its value unchanged, every other
\* upstream name/value pair appears once under pica-passthrough-<name>, no
\* value is lost (repeated names included) and no header is added.
C10_EveryUpstreamHeaderForwarded ==
    ptResp.outcome = OK =>
        /\ ptResp.headers[CONTENT_LENGTH] = ptUpstream.headers[CONTENT_LENGTH]
        /\ \A n \in UpstreamNames \ {CONTENT_LENGTH} :
              ptResp.headers[Prefixed(n)] = ptUpstream.headers[n]

(***************************************************************************)
(* Specification of the passthrough tasks                                  *)
(***************************************************************************)
FanInit == /\ CvmIdle /\ AuxIdle /\ CmdIdle /\ JwtIdle /\ RespIdle
           /\ ptTask = PtTaskIdle /\ evTask = EvTaskIdle
           /\ metricChan = 0 /\ eventChan = 0
           /\ eventAccessPassword \in EventAccessPasswords

PtDispatchReturns == PtDispatchError \/ PtDispatchResponse

FanNext ==
    \/ PtStart \/ PtGetConnection \/ PtDispatchError \/ PtDispatchResponse
    \/ PtMetricSend \/ PtBytes \/ PtCancel
    \/ EvFindOne \/ EvSend \/ MetricRecv \/ EventRecv

\* one passthrough request after the other, the channels kept between them
SpecFanout == FanInit /\ [][FanNext]_vars

\* the runtime resumes every task that can run and every awaited store,
\* upstream and body read returns; nothing obliges the receivers to drain
\* the channels or the caller to stay connected
SpecFanoutFair ==
    /\ FanInit /\ [][FanNext]_vars
    /\ WF_vars(PtGetConnection) /\ WF_vars(PtDispatchReturns)
    /\ WF_vars(PtMetricSend) /\ WF_vars(PtBytes)
    /\ WF_vars(EvFindOne) /\ WF_vars(EvSend)

\* C11: a request without the connection header or without the auth header
\* is answered bad_request, and nothing else happened for it: no connection
\* lookup, no dispatch, no spawned task, no metric and no event.
C11_MissingHeaderBadRequestNoEffect ==
    (ptTask.pc # "idle"
       /\ (~ptTask.connection_header \/ ptTask.auth_header = "absent")) =>
        /\ ptTask.pc = "returned" /\ ptTask.out = BAD_REQUEST
        /\ ptTask.log = <<>>
        /\ evTask.pc = "unspawned"

\* a request with the connection header and no auth header was answered
C11_Witness ==
    /\ ptTask.pc = "returned" /\ ptTask.out = BAD_REQUEST
    /\ ptTask.connection_header /\ ptTask.auth_header = "absent"

\* C12: the event task is spawned and the metric is sent only after the
\* upstream body has been read and the response has been produced.
C12_FanoutAfterResponse ==
    /\ Logged("spawn") =>
          /\ Logged("bytes") /\ LogIndex("bytes") < LogIndex("spawn")
          /\ Logged("respond") /\ LogIndex("respond") < LogIndex("spawn")
    /\ Logged("metric") =>
          /\ Logged("bytes") /\ LogIndex("bytes") < LogIndex("metric")
          /\ Logged("respond") /\ LogIndex("respond") < LogIndex("metric")

\* C13: once the upstream has answered, the handler returns its response
\* (or is dropped by a disconnect) whatever the state of the two channels.
C13_ResponseNeverWaitsOnFanout ==
    (Logged("spawn") /\ ptTask.pc \in SuspensionPoints)
        ~> (ptTask.pc \in {"returned", "cancelled"})

\* the request of C14: the upstream answered, the event task has ended, the
\* handler is past its metric send, and neither send had to wait for a slot
FanoutSettled ==
    /\ Logged("spawn") /\ evTask.pc = "done"
    /\ ptTask.pc \in {"bytes", "returned", "cancelled"}
    /\ ~Logged("metric_wait") /\ ~Logged("event_wait")

\* C14 as stated: when the lookup returns a matching definition and the auth
\* header parses as an encrypted access key, exactly one metric and exactly
\* one event are enqueued; never more than one of either.
C14_OneMetricOneEvent ==
    /\ LogCount("metric") <= 1 /\ LogCount("event") <= 1
    /\ (FanoutSettled /\ SparseCmdFound(evTask.definition, evTask.find_one)
          /\ ptTask.auth_header \in {"access key", "foreign key"}) =>
           (LogCount("metric") = 1 /\ LogCount("event") = 1)

\* C14 amended: the same, when moreover the key of the auth header decrypts
\* under an event_access_password of PASSWORD_LENGTH bytes.
C14_OneMetricOneEventWhenKeyDecrypts ==
    /\ LogCount("metric") <= 1 /\ LogCount("event") <= 1
    /\ (FanoutSettled /\ SparseCmdFound(evTask.definition, evTask.find_one)
          /\ ptTask.auth_header = "access key"
          /\ eventAccessPassword = PASSWORD_OK) =>
           (LogCount("metric") = 1 /\ LogCount("event") = 1)

\* a settled request of a failed upstream call with one metric and one event
C14_Witness ==
    /\ FanoutSettled /\ evTask.definition = "match" /\ evTask.find_one = "ok"
    /\ ptTask.auth_header = "access key"
    /\ eventAccessPassword = PASSWORD_OK
    /\ ptTask.status = "failure"
    /\ LogCount("metric") = 1 /\ LogCount("event") = 1

\* C15: a disconnect after the fan-out was started does not lose the usage
\* metric: a handler dropped after the spawn has sent it.
C15_FanoutSurvivesDisconnect ==
    (ptTask.pc = "cancelled" /\ Logged("spawn")) => Logged("metric")

(***************************************************************************)
(* Specification of the batch update                                       *)
(***************************************************************************)
BatchInit == /\ CvmIdle /\ AuxIdle /\ JwtIdle /\ PtIdle
             /\ cmdStore \in {{d} : d \in SeedDefinitions}
             /\ cmdNextId = 2
             /\ cmdReq = CmdRequest(None)
             /\ cmdResp = [status |-> None, results |-> <<>>]
             /\ testTask = TestIdle

\* the first batch the server gets
FirstBatchBegin == cmdReq.op = None /\ UpdateManyBegin

FirstBatchBeginRepeated == cmdReq.op = None /\ UpdateManyBeginRepeated

BatchNext ==
    \/ FirstBatchBegin \/ FirstBatchBeginRepeated
    \/ UpdateManyNextItem \/ UpdateManyEnd

\* one batch on a collection that holds one definition
SpecBatch == BatchInit /\ [][BatchNext]_vars

Succeeded(results) == {i \in 1..Len(results) : results[i].success}

\* C16: when a payload repeats one record, an application of the record
\* that follows a successful one leaves every stored definition, key
\* included, as it was.
C16_SecondApplicationChangesNothing ==
    [][(/\ IsSome(cmdReq.fixed)
        /\ Succeeded(cmdResp.results) # {}
        /\ Len(cmdResp'.results) = Len(cmdResp.results) + 1)
          => cmdStore' = cmdStore]_vars

\* a record that sets model_name was applied twice with success
C16_Witness ==
    /\ IsSome(cmdReq.fixed)
    /\ IsSome(Unwrap(cmdReq.fixed).model_name)
    /\ Len(cmdResp.results) = 2 /\ Succeeded(cmdResp.results) = {1, 2}
    /\ \E r \in cmdStore :
          /\ r.model_name = Unwrap(Unwrap(cmdReq.fixed).model_name)
          /\ r.key = KeyOfRecord(r)

\* C17: the result vector of update_many has one entry per item processed,
\* in payload order, a failed item does not end the loop, and the response
\* is Ok with one entry per payload item.
C17_OneResultPerItemNoAbort ==
    cmdReq.op = "update_many" =>
        /\ Len(cmdResp.results) = Len(cmdReq.items)
        /\ \A i \in 1..Len(cmdReq.items) :
              cmdResp.results[i].id = cmdReq.items[i]
        /\ ~cmdReq.running =>
              /\ cmdResp.status = OK
              /\ Len(cmdResp.results) = cmdReq.size

\* a batch whose first item failed in the store and whose second one succeeded
C17_Witness ==
    /\ cmdReq.op = "update_many" /\ ~cmdReq.running
    /\ Len(cmdResp.results) = 2
    /\ cmdResp.results[1].error = "update_one error"
    /\ cmdResp.results[2].success

\* C18: an item without id is reported {None, false, "Missing ID"}, an item
\* whose id no record has is reported {false, "Record not found"} (unless the
\* read itself failed), and the writes of the batch are as many as its items
\* reported success.
C18_FailedItemsWriteNothing ==
    cmdReq.op = "update_many" =>
        /\ \A i \in 1..Len(cmdResp.results) :
              /\ ~IsSome(cmdReq.items[i]) =>
                    cmdResp.results[i] = BatchResult(NoValue, FALSE, "Missing ID")
              /\ (/\ IsSome(cmdReq.items[i])
                  /\ CmdById(cmdStore, Unwrap(cmdReq.items[i])) = {}
                  /\ cmdResp.results[i].error # "get_one error") =>
                    cmdResp.results[i] =
                        BatchResult(cmdReq.items[i], FALSE, "Record not found")
        /\ cmdReq.writes = Cardinality(Succeeded(cmdResp.results))

\* a finished batch of an item without id and an item with an unknown id
C18_Witness ==
    /\ cmdReq.op = "update_many" /\ ~cmdReq.running
    /\ Len(cmdResp.results) = 2
    /\ cmdResp.results[1].error = "Missing ID"
    /\ cmdResp.results[2].error = "Record not found"
    /\ cmdReq.writes = 0

RecordFields ==
    {"connection_platform", "platform_version", "name", "model_name",
     "action_name", "active"}

ApiFields == {"base_url", "path"}

\* C19: a successful item leaves every field whose counterpart in the
\* record is absent as it was (key excepted), changes base_url and path only
\* when platform_info is the Api variant, and touches no other definition.
C19_AbsentFieldsKept ==
    [][(/\ IsSome(cmdReq.fixed)
        /\ Len(cmdResp'.results) = Len(cmdResp.results) + 1
        /\ cmdResp'.results[Len(cmdResp'.results)].success)
          => LET request == Unwrap(cmdReq.fixed)
                 id == Unwrap(request.id)
                 old == CHOOSE r \in cmdStore : r.id = id
                 new == CHOOSE r \in cmdStore' : r.id = id
             IN  /\ \A f \in RecordFields :
                       ~IsSome(request[f]) => new[f] = old[f]
                 /\ new.id = old.id /\ new.deleted = old.deleted
                 /\ new.platform_info.variant = old.platform_info.variant
                 /\ \A f \in ApiFields :
                       ~IsSome(request[f]) =>
                           new.platform_info[f] = old.platform_info[f]
                 /\ old.platform_info.variant # "Api" =>
                       new.platform_info = old.platform_info
                 /\ \A r \in cmdStore : r.id # id => r \in cmdStore'
                 /\ Cardinality(cmdStore') = Cardinality(cmdStore)]_vars

\* a record that sets base_url was applied with success to a definition whose
\* platform_info is not the Api variant
C19_Witness ==
    /\ IsSome(cmdReq.fixed)
    /\ IsSome(Unwrap(cmdReq.fixed).base_url)
    /\ Succeeded(cmdResp.results) # {}
    /\ \E r \in cmdStore : r.platform_info = OtherPlatformInfo

(***************************************************************************)
(* Specification of the definition test                                    *)
(***************************************************************************)
\* the definitions a test can meet: made by RequestExt::from, then possibly
\* made inactive by an update and possibly deleted
TestSeeds ==
    {[d EXCEPT !.active = a, !.deleted = x] :
        d \in SeedDefinitions, a \in BOOLEAN, x \in BOOLEAN}

TestInit == /\ CvmIdle /\ AuxIdle /\ JwtIdle /\ PtIdle
            /\ cmdStore \in {{d} : d \in TestSeeds}
            /\ cmdNextId = 2
            /\ cmdReq = CmdRequest(None)
            /\ cmdResp = [status |-> None, results |-> <<>>]
            /\ testTask = TestIdle

TestNext == TestConnectionModelDefinition

SpecTest == TestInit /\ [][TestNext]_vars

TestStepped(step) ==
    \E i \in 1..Len(testTask.steps) : testTask.steps[i] = step

\* the stored definition the last test addressed can be tested
TestedIsInactiveAndLive ==
    \E r \in cmdStore : r.id = testTask.id /\ ~r.active /\ ~r.deleted

\* C20: a test reaches the upstream only for a definition with active=false
\* and deleted=false; for an id whose definition is active, deleted or
\* missing the handler returns not_found once its two reads have answered,
\* and it fetches no secret, calls no upstream and writes no record.
C20_OnlyInactiveDefinitionsAreTested ==
    testTask.status # None =>
        /\ TestStepped("execute") => TestedIsInactiveAndLive
        /\ ~TestedIsInactiveAndLive =>
              /\ ~TestStepped("secret") /\ ~TestStepped("execute")
              /\ ~TestStepped("write")
              /\ \A r \in cmdStore :
                    r.id = testTask.id =>
                       r.test_connection_status = TestConnectionDefault
              /\ testTask.stop \notin {"connection error", "definition error"}
                    => testTask.status = NOT_FOUND

\* the test of an active, live definition was answered not_found after the
\* read of the definition
C20_Witness ==
    /\ testTask.status = NOT_FOUND
    /\ testTask.steps = <<"connection", "definition">>
    /\ \E r \in cmdStore : r.id = testTask.id /\ r.active /\ ~r.deleted

\* the stored definitions the last test addressed
TestedRows == { r \in cmdStore : r.id = testTask.id }

\* C21: once the upstream call of a test has returned and the steps after it
\* did not fail, the handler has written the definition's status before it
\* responds: Success with the upstream body text and the request payload
\* exactly when the upstream status is 2xx, Failure with the same two texts
\* otherwise; the stored definition shows that state.
C21_StatusWrittenBeforeResponse ==
    /\ testTask.status = OK =>
          /\ testTask.stop = "none"
          /\ TestedRows # {}
          /\ \E i, j \in 1..Len(testTask.steps) :
                /\ i < j
                /\ testTask.steps[i] = "write"
                /\ testTask.steps[j] = "respond"
          /\ \A r \in TestedRows :
                /\ r.test_connection_status.request_payload
                      = testTask.request_string
                /\ (testTask.upstream \in 200..299) =>
                      /\ r.test_connection_status.state = "Success"
                      /\ r.test_connection_status.response = testTask.body
                /\ (testTask.upstream \notin 200..299) =>
                      /\ r.test_connection_status.state = "Failure"
                      /\ r.test_connection_status.message = testTask.body
    /\ (TestStepped("execute") /\ testTask.stop = "none") =>
          testTask.status = OK

\* a test whose upstream answered 300 left a Failure with the body text
C21_Witness ==
    /\ testTask.status = OK
    /\ testTask.upstream = 300
    /\ \E r \in TestedRows :
          /\ r.test_connection_status.state = "Failure"
          /\ r.test_connection_status.message = "denied"

\* C22: a test whose upstream call returned, with a 2xx status or any other,
\* and whose later steps did not fail is answered with a successful result
\* whose response is the upstream body text and whose code is the upstream
\* status; the upstream status never makes the handler fail.
C22_UpstreamStatusNeverAnError ==
    (TestStepped("execute") /\ testTask.stop = "none") =>
        /\ testTask.status = OK
        /\ Len(testTask.response) = 1
        /\ testTask.response[1].code = testTask.upstream
        /\ testTask.response[1].response = testTask.body

\* a test whose upstream answered 500 was answered with that code and text
C22_Witness ==
    /\ testTask.status = OK
    /\ testTask.upstream = 500
    /\ Len(testTask.response) = 1
    /\ testTask.response[1].code = 500
    /\ testTask.response[1].response = "denied"

(***************************************************************************)
(* Specification of request materialisation                                *)
(***************************************************************************)
MatInit == /\ CvmIdle /\ CmdIdle /\ JwtIdle /\ PtIdle
           /\ matTask \in MatRequests /\ knResp = KnIdle
           /\ defNames = [d \in DefinitionIds |-> "Hotels"]
           /\ connCache = <<>> /\ connResp = ConnIdle
           /\ LateIdle

MatNext == MaterialiseRequest

SpecMaterialise == MatInit /\ [][MatNext]_vars

MatBinding == matTask.binding[1]

\* the value the outbound request carries at the binding's target_param
MatOutbound ==
    IF MatBinding.location = "PathParam"
    THEN matTask.context[MatBinding.target_param]
    ELSE matTask.query[MatBinding.target_param]

\* the value the caller supplied for the binding's target_param
MatSupplied ==
    IF MatBinding.location = "PathParam"
    THEN matTask.path_params[MatBinding.target_param]
    ELSE matTask.query_params[MatBinding.target_param]

MatVariable == matTask.secret[MatBinding.variable_name]

\* C23: for a Strict binding whose variable the secret holds and whose
\* coercion succeeds, the outbound request carries the variable's coerced
\* value at target_param whatever the caller supplied.
C23_StrictCarriesVariable ==
    (/\ matTask.status = OK
     /\ MatBinding.strategy = "Strict"
     /\ IsSome(MatVariable)
     /\ IsSome(Coerce(MatBinding.data_type, Unwrap(MatVariable))))
    => MatOutbound = Coerce(MatBinding.data_type, Unwrap(MatVariable))

\* C24: for a Fallback binding a value the caller supplied for target_param
\* is the value the outbound request carries there; whenever the outbound
\* value differs from what the caller supplied, the caller supplied none.
C24_FallbackKeepsCallerValue ==
    (matTask.status = OK /\ MatBinding.strategy = "Fallback") =>
        /\ IsSome(MatSupplied) => MatOutbound = MatSupplied
        /\ MatOutbound # MatSupplied => ~IsSome(MatSupplied)

\* a Fallback binding to a path parameter met a caller value that differs
\* from the variable's, in a secret that holds the target's name too, and
\* the caller's value is in the outbound path
C24_Witness ==
    /\ matTask.status = OK
    /\ MatBinding.strategy = "Fallback"
    /\ MatBinding.location = "PathParam"
    /\ MatBinding.target_param = "id"
    /\ MatBinding.variable_name = "hotel_id"
    /\ matTask.secret["hotel_id"] = Some(<<"H", "9">>)
    /\ matTask.secret["id"] = Some(<<"0", "7">>)
    /\ matTask.path_params["id"] = Some(<<"X">>)
    /\ matTask.path = <<"/", "h", "/", "X">>

(***************************************************************************)
(* Specification of read_knowledge                                         *)
(***************************************************************************)
KnInit == /\ CmdIdle /\ JwtIdle /\ PtIdle /\ AuxIdle
          /\ cvmStore \in KnStores
          /\ cvmNextId = MaxMappings + 1
          /\ cvmReq = [op |-> None] /\ cvmResp = [status |-> None]
          /\ creators = [c \in 1..NumCreators |-> [pc |-> "idle"]]

KnNext == ReadKnowledge

SpecKnowledge == KnInit /\ [][KnNext]_vars

\* the list element the annotation sentence has for one binding
KnElement(binding) ==
    <<"'", binding.target_param,
      CASE binding.strategy = "Strict" -> "' (auto-filled, do NOT ask user)"
        [] binding.strategy = "Fallback" ->
              "' (has default, only ask if user wants to override)"
        [] binding.strategy = "Append" ->
              "' (partially pre-filled, user may add more)">>

RECURSIVE KnElements(_)
KnElements(bindings) ==
    IF bindings = <<>> THEN <<>>
    ELSE IF Len(bindings) = 1 THEN KnElement(bindings[1])
    ELSE KnElement(bindings[1]) \o <<", ">> \o KnElements(Tail(bindings))

\* the IMPORTANT sentence of a binding list
KnSentence(bindings) ==
    <<"IMPORTANT: ",
      "The following parameters are automatically handled by the system and do NOT need to be retrieved or asked for: ">>
        \o KnElements(bindings) \o <<".\n\n">>

KnLive(id) ==
    { m \in cvmStore : ~m.deleted /\ m.connection_model_definition_id = id }

KnOriginal(row) == IF IsSome(row.knowledge) THEN Unwrap(row.knowledge) ELSE <<>>

\* C25: when the mapping read answers, read_knowledge returns every row in
\* place; a row whose definition has a non-deleted mapping carries the
\* IMPORTANT sentence of one such mapping, one element per binding in binding
\* order with the annotation of its strategy, followed by the original
\* knowledge; a row without one is returned as it was read.
C25_EnrichesRowsWithLiveMapping ==
    (knResp.status = OK /\ knResp.fault = "none") =>
        /\ Len(knResp.out) = Len(knResp.rows)
        /\ \A i \in 1..Len(knResp.rows) :
              /\ knResp.out[i].id = knResp.rows[i].id
              /\ KnLive(knResp.rows[i].id) = {}
                    => knResp.out[i] = knResp.rows[i]
              /\ KnLive(knResp.rows[i].id) # {}
                    => \E m \in KnLive(knResp.rows[i].id) :
                          knResp.out[i].knowledge
                             = Some(KnSentence(m.bindings)
                                      \o KnOriginal(knResp.rows[i]))

\* a page of two rows: the first has a mapping of a Fallback and an Append
\* binding and knowledge of its own, the second only a deleted mapping
C25_Witness ==
    /\ knResp.status = OK /\ knResp.fault = "none"
    /\ Len(knResp.rows) = 2
    /\ IsSome(knResp.rows[1].knowledge)
    /\ \E m \in KnLive(knResp.rows[1].id) :
          /\ Len(m.bindings) = 2
          /\ m.bindings[1].strategy = "Fallback"
          /\ m.bindings[2].strategy = "Append"
    /\ knResp.out[1] # knResp.rows[1]
    /\ KnLive(knResp.rows[2].id) = {}
    /\ \E m \in cvmStore :
          m.deleted /\ m.connection_model_definition_id = knResp.rows[2].id
    /\ knResp.out[2] = knResp.rows[2]

(***************************************************************************)
(* Specification of the connection cache                                   *)
(***************************************************************************)
CacheInit == /\ CvmIdle /\ CmdIdle /\ JwtIdle /\ PtIdle
             /\ matTask = MatIdle /\ knResp = KnIdle
             /\ defNames \in [DefinitionIds -> ConnectionDefinitionNames]
             /\ connCache = <<>> /\ connResp = ConnIdle
             /\ LateIdle

CacheNext == GetConnections \/ UpdateConnectionDefinition

SpecCache == CacheInit /\ [][CacheNext]_vars

\* C26: every read of a tenant's connections returns, for each connection,
\* the name its connection definition has in the store at that moment; after
\* a successful update of a definition's name no read returns the name that
\* was cached before.
C26_ReadsShowCurrentDefinitionName ==
    connResp.op = "read" =>
        \A row \in connResp.rows :
            row.connection_definition_name
                = defNames[row.connection_definition_id]

\* a read that follows an update which dropped cached connections of the
\* renamed definition, and returns one of them under the new name
C26_Witness ==
    /\ connResp.op = "read"
    /\ connResp.prev.op = "update"
    /\ connResp.prev.invalidated > 0
    /\ \E row \in connResp.rows :
          /\ row.connection_definition_id = connResp.prev.definition_id
          /\ row.connection_definition_name = "Updated Definition Name"

(***************************************************************************)
(* Mappings across tenants and soft deletion                               *)
(***************************************************************************)
\* stores of up to two mappings as create_mapping left them
TenantStores ==
    {{}} \cup { {CvmAccess(p, a, 1)} : p \in CvmCreateRequest, a \in Tenants }
         \cup { {CvmAccess(p, a, 1), CvmAccess(q, b, 2)} :
                  p \in CvmCreateRequest, a \in Tenants,
                  q \in CvmCreateRequest, b \in Tenants }

TenantsInit == /\ CmdIdle /\ JwtIdle /\ PtIdle /\ AuxIdle
               /\ cvmStore \in TenantStores
               /\ cvmNextId = MaxMappings + 1
               /\ cvmReq = [op |-> None] /\ cvmResp = [status |-> None]
               /\ creators = [c \in 1..NumCreators |-> [pc |-> "idle"]]

TenantsNext == ReadMappings \/ UpdateMapping \/ DeleteMapping

\* the handlers without an ownership filter, called by every tenant
SpecCvmTenants == TenantsInit /\ [][TenantsNext]_vars

\* the live row an update or delete request addresses
CvmAddressed == { r \in cvmStore : r.id = cvmReq'.id /\ ~r.deleted }

\* C27: read_mappings, update_mapping and delete_mapping select rows without
\* regard to the caller's tenant: an update or delete succeeds exactly when a
\* live row of that id exists, whoever owns it, and writes what the request
\* says; a read returns every live row the query selects.
C27_MappingsGlobalAcrossTenants ==
    [][ /\ cvmReq'.op \in {"update", "delete"} =>
              (cvmResp'.status = OK <=> CvmAddressed # {})
        /\ (cvmReq'.op = "update" /\ cvmResp'.status = OK) =>
              \E r \in CvmAddressed :
                 cvmStore' = (cvmStore \ {r}) \cup
                    {[r EXCEPT
                        !.connection_model_definition_id =
                            cvmReq'.payload.connection_model_definition_id,
                        !.connection_platform =
                            cvmReq'.payload.connection_platform,
                        !.bindings = cvmReq'.payload.bindings,
                        !.updated = TRUE]}
        /\ cvmReq'.op = "read" =>
              /\ cvmStore' = cvmStore
              /\ cvmResp'.rows =
                   { r \in cvmStore :
                       /\ ~r.deleted
                       /\ cvmReq'.query # NoQuery =>
                             r.connection_model_definition_id = cvmReq'.query }
      ]_vars

\* a tenant deleted the mapping another tenant created
C27_Witness ==
    /\ cvmReq.op = "delete"
    /\ cvmResp.status = OK
    /\ cvmResp.row.ownership # cvmReq.caller
    /\ \E r \in cvmStore : r.id = cvmReq.id /\ r.deleted

\* C28: no step removes a row of the mapping store; a successful delete sets
\* deleted on the addressed row and changes nothing else; an update or delete
\* of an already deleted mapping answers not_found and leaves the store as it
\* was.
C28_SoftDeleteOnly ==
    [][ /\ \A r \in cvmStore : \E q \in cvmStore' : q.id = r.id
        /\ (cvmReq'.op = "delete" /\ cvmResp'.status = OK) =>
              \E r \in CvmAddressed :
                 cvmStore' = (cvmStore \ {r}) \cup {[r EXCEPT !.deleted = TRUE]}
        /\ (/\ cvmReq'.op \in {"update", "delete"}
            /\ \E r \in cvmStore : r.id = cvmReq'.id /\ r.deleted) =>
              (cvmResp'.status = NOT_FOUND /\ cvmStore' = cvmStore)
      ]_vars

\* an update of a deleted mapping was answered not_found
C28_Witness ==
    /\ cvmReq.op = "update"
    /\ cvmResp.status = NOT_FOUND
    /\ \E r \in cvmStore : r.id = cvmReq.id /\ r.deleted

(***************************************************************************)
(* Peek and keyed validation of the bearer token                           *)
(***************************************************************************)
\* C29: a well-formed token with accepted audience and issuer whose exp has
\* passed is not rejected by the peek decode; its expiry is left to the keyed
\* validation.
C29_PeekIgnoresExpiry ==
    (/\ Handled /\ Bearer
     /\ jwtReq.token.audIssOk
     /\ ~jwtReq.token.expOk)
    => ~(jwtResp.stage = "peek" /\ jwtResp.message = MsgInvalidFormat)

\* the key the token's own claims select
JwtOwnKey ==
    IF jwtReq.token.is_buildable_core
    THEN jwtConfig.buildable_secret \o jwtConfig.jwt_secret
    ELSE jwtConfig.jwt_secret \o Unwrap(jwtReq.token.buildable_id)

\* the token passes signature, expiry, audience and issuer under that key
JwtVerified ==
    /\ Bearer
    /\ jwtReq.token.is_buildable_core \/ IsSome(jwtReq.token.buildable_id)
    /\ jwtReq.token.signedWith = JwtOwnKey
    /\ jwtReq.token.expOk /\ jwtReq.token.audIssOk
    /\ jwtReq.token.fullClaims

\* C30: the downstream handler runs exactly when the token decodes under the
\* derived key with signature, expiry, audience and issuer checked; claims
\* are attached exactly then, and they are the claims of that token.
C30_NextIffVerifiedDecode ==
    Handled =>
        /\ jwtResp.nextRan <=> JwtVerified
        /\ IsSome(jwtResp.claims) <=> jwtResp.nextRan
        /\ IsSome(jwtResp.claims) =>
              /\ Unwrap(jwtResp.claims).is_buildable_core
                    = jwtReq.token.is_buildable_core
              /\ Unwrap(jwtResp.claims).buildable_id
                    = jwtReq.token.buildable_id

\* a user token signed with JWT_SECRET followed by its buildableId reached
\* the downstream handler with its claims attached
C30_Witness ==
    /\ Handled /\ jwtResp.nextRan
    /\ ~jwtReq.token.is_buildable_core
    /\ jwtReq.token.buildable_id = Some(<<"t">>)
    /\ jwtReq.token.signedWith = <<"j", "t">>
    /\ jwtResp.claims = Some([is_buildable_core |-> FALSE,
                              buildable_id |-> Some(<<"t">>)])

(***************************************************************************)
(* Specification of the passthrough forwarding and audit event             *)
(***************************************************************************)
AuditInit == /\ CvmIdle /\ CmdIdle /\ JwtIdle /\ PtIdle
             /\ matTask = MatIdle /\ knResp = KnIdle
             /\ defNames = [d \in DefinitionIds |-> "Hotels"]
             /\ connCache = <<>> /\ connResp = ConnIdle
             /\ batchTask = BatchIdle /\ testConn = TestConnIdle
             /\ auditTask \in {AuditPending(in) : in \in AuditInputs}

AuditNext == AuditPassthroughRequest

\* one passthrough request with its inbound headers, the stored definitions
\* and the outcome of each call it makes
SpecAudit == AuditInit /\ [][AuditNext]_vars

\* the request reached the dispatcher
AuditDispatched == auditTask.pc = "done" /\ IsSome(auditTask.forwarded)

\* C31: the header map given to the dispatcher holds no value under the auth
\* header nor under the connection header, and under every other name it
\* holds the values the inbound request held, in their order; every request
\* with both routing headers reaches the dispatcher.
C31_RoutingHeadersStripped ==
    /\ AuditDispatched =>
          LET forwarded == Unwrap(auditTask.forwarded)
          IN  /\ forwarded[AuthHeader] = <<>>
              /\ forwarded[ConnectionHeader] = <<>>
              /\ \A n \in InboundNames \ {AuthHeader, ConnectionHeader} :
                    forwarded[n] = auditTask.in.headers[n]
    /\ (/\ auditTask.pc = "done"
        /\ auditTask.in.headers[AuthHeader] # <<>>
        /\ auditTask.in.headers[ConnectionHeader] # <<>>) => AuditDispatched

\* a request with both routing headers, the id header and two values under
\* another name was dispatched
C31_Witness ==
    /\ AuditDispatched
    /\ auditTask.in.headers[AuthHeader] = <<"access key">>
    /\ auditTask.in.headers[ConnectionHeader] = <<"c1">>
    /\ Unwrap(auditTask.forwarded)["x-trace"] = <<"a", "b">>
    /\ Unwrap(auditTask.forwarded)[QUERY_BY_ID_PASSTHROUGH] = <<"d3">>

\* C32: the response of a dispatched request whose upstream answered is
\* decided by the upstream status and the read of the body alone: it is the
\* same whether the metric send and the event send were delivered or failed.
C32_SendFailuresSwallowed ==
    (AuditDispatched /\ auditTask.resp.outcome # "dispatch error") =>
        /\ auditTask.resp
              = BytesResponse(auditTask.in.status, auditTask.in.bytes)
        /\ auditTask.metric = auditTask.in.metric_send
        /\ IsSome(auditTask.event) =>
              Unwrap(auditTask.event).sent = auditTask.in.event_send

\* both sends failed and the caller got the upstream status and body
C32_Witness ==
    /\ AuditDispatched
    /\ auditTask.metric = "closed"
    /\ IsSome(auditTask.event)
    /\ Unwrap(auditTask.event).sent = "closed"
    /\ auditTask.resp = [outcome |-> OK, status |-> 200, body |-> "bytes"]

\* the definitions that served the request of the audit task
AuditServing ==
    ServingDefinitions(auditTask.in.store, AuditConnection.platform,
                       AuditPath, AuditMethod)

\* the name the audit event of a request served by definition d is to carry
AuditEventNameOf(d) ==
    AuditConnection.platform \o "::" \o AuditConnection.platform_version
        \o "::" \o d.model_name \o "::" \o d.action_name
        \o (IF auditTask.in.status \in 200..299 THEN "::request-succeeded"
                                               ELSE "::request-failed")

\* C33: every audit event built carries the name made of the platform, the
\* platform version, the model_name and the action_name of a definition
\* that served the request, ending in request-succeeded when the upstream
\* status is 2xx and in request-failed otherwise.
C33_EventNameOfServingDefinition ==
    (auditTask.pc = "done" /\ IsSome(auditTask.event)) =>
        \E d \in AuditServing :
            Unwrap(auditTask.event).name = AuditEventNameOf(d)

\* C34: the definition an audit event is built from passes the filter of the
\* definition that served the request: it is of the connection's platform,
\* of the request's path and method, active and not deleted.
C34_EventFromServingDefinitionOnly ==
    (auditTask.pc = "done" /\ IsSome(auditTask.event)) =>
        Unwrap(auditTask.event).definition \in AuditServing


(***************************************************************************)
(* The read of the upstream body                                           *)
(***************************************************************************)
\* the inbound task returned because the read of the upstream body failed
PtBodyReadFailed ==
    /\ ptTask.pc = "returned"
    /\ Logged("bytes")
    /\ ~Logged("respond")

\* C35: a passthrough request whose dispatch returned and whose read of the
\* upstream body failed is answered with the Internal error unknown, as the
\* definition test answers a failed read of the body text.
C35_BodyReadFailureIsUnknown ==
    PtBodyReadFailed => ptTask.out = "500 unknown"


(***************************************************************************)
(* The template context of a definition test                               *)
(***************************************************************************)
\* C36: in the context given to the executor every key the caller names in
\* path_params holds the caller's text, whatever the secret held under it,
\* and every other key holds what the secret holds, or nothing when the
\* secret has no such key.
C36_PathParamsReplaceSecretKeys ==
    matTask.status # None =>
        \A k \in ParamNames :
            /\ IsSome(matTask.path_params[k]) =>
                  matTask.passed[k] = matTask.path_params[k]
            /\ ~IsSome(matTask.path_params[k]) =>
                  matTask.passed[k] = matTask.secret[k]

\* the caller's id replaced the secret's id and the secret's hotel_id stayed
C36_Witness ==
    /\ matTask.status # None
    /\ matTask.secret["id"] = Some(<<"H", "9">>)
    /\ matTask.path_params["id"] = Some(<<"X">>)
    /\ matTask.passed["id"] = Some(<<"X">>)
    /\ matTask.secret["hotel_id"] = Some(<<"0", "7">>)
    /\ ~IsSome(matTask.path_params["hotel_id"])
    /\ matTask.passed["hotel_id"] = Some(<<"0", "7">>)


(***************************************************************************)
(* Specification of the definition writers                                 *)
(***************************************************************************)
\* the stored definition: made by RequestExt::from, then possibly made
\* inactive, possibly deleted, its document with or without an ownership
WriterSeeds ==
    LET made == CmdFrom([connection_platform |-> <<"p">>,
                         platform_version |-> <<"1">>, name |-> <<"n">>,
                         model_name |-> <<"m">>, base_url |-> <<"u">>,
                         path |-> <<"/", "X">>, action_name |-> "GetMany",
                         active |-> NoValue], 1)
    IN  { WithOwnership([made EXCEPT !.active = a, !.deleted = x], o) :
            a \in BOOLEAN, x \in BOOLEAN, o \in Option(Tenants) }

WritersInit == /\ CvmIdle /\ JwtIdle /\ PtIdle
               /\ matTask = MatIdle /\ knResp = KnIdle
               /\ defNames = [d \in DefinitionIds |-> "Hotels"]
               /\ connCache = <<>> /\ connResp = ConnIdle
               /\ LateIdle
               /\ cmdStore \in {{d} : d \in WriterSeeds}
               /\ cmdNextId = 2
               /\ cmdReq = CmdRequest(None)
               /\ cmdResp = [status |-> None, results |-> <<>>]
               /\ testTask = TestIdle

WritersNext == BatchGetOne \/ BatchUpdateOne \/ TestConnectionAs

\* an update_many item in two steps beside definition tests
SpecWriters == WritersInit /\ [][WritersNext]_vars

\* the stored definitions the filter of the caller leaves out
HiddenFrom(access, id) ==
    { r \in cmdStore :
        /\ r.id = id
        /\ r.deleted \/ (IsSome(access) /\ r.ownership # access) }

\* C37: an update_many item whose id names a definition that is soft-deleted
\* or, for a caller with an EventAccess, not of the caller's ownership is
\* reported 'Record not found' once its read has answered, and the store is
\* left as it was; the record an item goes on with passes the caller's
\* filter.
C37_BatchLoadsUnderTenantFilter ==
    [][ /\ (/\ batchTask.pc \in {"idle", "done"}
            /\ testConn' = testConn
            /\ batchTask'.pc = "done"
            /\ IsSome(batchTask'.request.id)
            /\ HiddenFrom(batchTask'.access,
                          Unwrap(batchTask'.request.id)) # {}
            /\ batchTask'.result
                  # Some(BatchResult(batchTask'.request.id, FALSE,
                                     "get_one error"))) =>
              /\ batchTask'.result
                    = Some(NotFoundResult(Unwrap(batchTask'.request.id)))
              /\ cmdStore' = cmdStore
        /\ batchTask'.pc = "read" =>
              /\ ~Unwrap(batchTask'.record).deleted
              /\ IsSome(batchTask'.access) =>
                    Unwrap(batchTask'.record).ownership = batchTask'.access
      ]_vars

\* tenant t1 named the live definition of tenant t2 and was told that the
\* record was not found
C37_Witness ==
    /\ batchTask.pc = "done"
    /\ batchTask.access = Some("t1")
    /\ batchTask.request.model_name = Some(<<"O">>)
    /\ batchTask.result = Some(NotFoundResult(1))
    /\ \E r \in cmdStore : /\ r.id = 1 /\ r.ownership = Some("t2")
                           /\ ~r.deleted /\ r.model_name = <<"m">>


\* the connections the last test may use: of the requested key, of the
\* caller's ownership, not deleted
TestOwnConnections ==
    { c \in TestConnections : /\ c.key = testConn.connection_key
                              /\ c.ownership = testConn.access
                              /\ ~c.deleted }

\* C38: the connection a definition test goes on with has the requested key,
\* the caller's ownership and is not deleted; a test fetches a secret, calls
\* the upstream or writes only with such a connection, and when there is
\* none and the read of the connection answered, the test returns not_found
\* right after that read.
C38_TestUsesOwnConnectionOnly ==
    testConn.runs > 0 =>
        /\ IsSome(testConn.connection) =>
              Unwrap(testConn.connection) \in TestOwnConnections
        /\ (TestStepped("secret") \/ TestStepped("execute")
               \/ TestStepped("write")) => IsSome(testConn.connection)
        /\ (TestOwnConnections = {} /\ testTask.stop # "connection error") =>
              /\ testTask.status = NOT_FOUND
              /\ testTask.steps = <<"connection">>

\* tenant t1 asked for the key of a connection of tenant t2 and got
\* not_found before any secret was fetched
C38_Witness ==
    /\ testConn.access = "t1"
    /\ testConn.connection_key = "k2"
    /\ testTask.status = NOT_FOUND
    /\ testTask.steps = <<"connection">>

\* C39: when a definition test wrote the status of a definition after an
\* update_many item without test_connection_status read that definition
\* and before the item wrote it, the stored status after the item's write
\* is the one the test wrote.
C39_TestStatusSurvivesBatchWrite ==
    [][ (/\ batchTask.pc = "read"
         /\ batchTask'.pc = "done"
         /\ testConn.runs = batchTask.read_runs + 1
         /\ testTask.status = OK
         /\ testTask.id = Unwrap(batchTask.request.id)) =>
            \A r \in cmdStore' :
                r.id = testTask.id =>
                   r.test_connection_status
                      = TestConnectionOf(testTask.upstream, testTask.body,
                                         testTask.request_string)
      ]_vars


(***************************************************************************)
(* What a definition test leaves in the store                              *)
(***************************************************************************)
\* C40: a test that ends in an error before its write (connection or
\* definition not found, a failed read, secret fetch, serialisation,
\* dispatch or body read) leaves every stored definition as it was; a test
\* that completes leaves every definition but the tested one as it was and
\* changes of the tested one nothing but test_connection_status.
C40_TestChangesStatusOnly ==
    [][ /\ (/\ testTask'.status # OK
            /\ \A i \in 1..Len(testTask'.steps) :
                  testTask'.steps[i] # "write") => cmdStore' = cmdStore
        /\ testTask'.status = OK =>
              /\ Cardinality(cmdStore') = Cardinality(cmdStore)
              /\ \A r \in cmdStore :
                    /\ r.id # testTask'.id => r \in cmdStore'
                    /\ r.id = testTask'.id =>
                          \E q \in cmdStore' :
                             [q EXCEPT !.test_connection_status =
                                          r.test_connection_status] = r
      ]_vars

\* a test whose body read failed left the Success an earlier test had
\* written
C40_Witness ==
    /\ testTask.stop = "text error"
    /\ testTask.status = "500 unknown"
    /\ \E r \in cmdStore :
          /\ r.id = testTask.id /\ ~r.active /\ ~r.deleted
          /\ r.test_connection_status.state = "Success"
====
